---- MODULE Spec2Model ----
(***************************************************************************)
(* Model of the custom-field resolution, field-value normalization, sprint *)
(* parsing, issue record building, release selection, aggregation and      *)
(* keyword search code of jira-releaseinfo-export (main.py, main_v3.py,    *)
(* main_v4_fetch_all_issues.py, main_v6_keyword_match.py).                 *)
(*                                                                         *)
(* JSON / Python values are tagged records.  A Python string is a sequence *)
(* of lexemes (a lexeme is one character such as "," or one unbroken word  *)
(* such as "name=" or "ACTIVE"), so that find, slicing, strip, join and    *)
(* str() are computed position by position as the code computes them.      *)
(***************************************************************************)
EXTENDS Integers, Sequences, FiniteSets, TLC

VARIABLES op, fields, possible_field_ids, sprint_data, result,
          issue, project_key, release,
          versions, start_date, end_date,
          releases, responses,
          df, keywords,
          server, startAt, requests, issues_data,
          project_keys, answers

\* The arguments of the field-level helpers, of record building, of release
\* selection, of aggregation and of the keyword search.
field_args == <<fields, possible_field_ids, sprint_data>>
record_args == <<issue, project_key, release>>
window_args == <<versions, start_date, end_date>>
table_args == <<releases, responses>>
search_args == <<df, keywords>>
page_args == <<server, startAt, requests, issues_data>>
project_args == <<project_keys, answers>>

vars == <<op, result, field_args, record_args, window_args, table_args, search_args,
          page_args, project_args>>

(***************************************************************************)
(* Bounds of the model.                                                    *)
(***************************************************************************)
MaxCandidates == 3
MaxListLen == 2
MaxSegments == 3

(***************************************************************************)
(* Python values.                                                          *)
(***************************************************************************)
None == [t |-> "null"]
PyS(s) == [t |-> "str", s |-> s]
PyN(n) == [t |-> "num", n |-> n]
PyB(b) == [t |-> "bool", b |-> b]
PyD(m) == [t |-> "map", m |-> m]
PyL(l) == [t |-> "list", l |-> l]

EmptyStr == PyS(<<>>)
EmptyMap == [k \in {} |-> None]

IsStr(v) == v.t = "str"
IsDict(v) == v.t = "map"
IsList(v) == v.t = "list"

\* The order in which the keys of a mapping are iterated (a dict keeps the
\* order of its JSON document; the model fixes one order).
KeyOrder == <<"value", "name", "state", "id">>

KeysOf(m) == SelectSeq(KeyOrder, LAMBDA k : k \in DOMAIN m)

\* sep.join(parts) on lexeme sequences.
RECURSIVE Join(_, _)
Join(parts, sep) ==
    IF Len(parts) = 0 THEN <<>>
    ELSE IF Len(parts) = 1 THEN parts[1]
    ELSE parts[1] \o sep \o Join(Tail(parts), sep)

CommaSpace == <<",", " ">>

\* repr(v): what str() prints for a value nested in a dict or a list.
RECURSIVE Repr(_)
Repr(v) ==
    CASE v.t = "null" -> <<"None">>
      [] v.t = "str"  -> <<"'">> \o v.s \o <<"'">>
      [] v.t = "num"  -> <<ToString(v.n)>>
      [] v.t = "bool" -> IF v.b THEN <<"True">> ELSE <<"False">>
      [] v.t = "map"  ->
            <<"{">>
            \o Join([i \in 1..Len(KeysOf(v.m)) |->
                        <<"'", KeysOf(v.m)[i], "'", ":", " ">>
                        \o Repr(v.m[KeysOf(v.m)[i]])], CommaSpace)
            \o <<"}">>
      [] v.t = "list" ->
            <<"[">>
            \o Join([i \in 1..Len(v.l) |-> Repr(v.l[i])], CommaSpace)
            \o <<"]">>

\* str(v), as a lexeme sequence.
StrOf(v) == IF v.t = "str" THEN v.s ELSE Repr(v)

\* str(v), as a Python value.
PyStr(v) == PyS(StrOf(v))

\* bool(v): Python truthiness.
Truthy(v) ==
    CASE v.t = "null" -> FALSE
      [] v.t = "str"  -> Len(v.s) > 0
      [] v.t = "num"  -> v.n # 0
      [] v.t = "bool" -> v.b
      [] v.t = "map"  -> DOMAIN v.m # {}
      [] v.t = "list" -> Len(v.l) > 0

\* d.get(key, default)
Get(d, key, default) == IF key \in DOMAIN d THEN d[key] ELSE default

(***************************************************************************)
(* main_v3.py: _get_custom_field_value                                     *)
(***************************************************************************)
\* The dict / list / scalar branch applied to the candidate that was found.
NormalizeFound(value) ==
    IF IsDict(value) THEN Get(value.m, "value", PyStr(value))
    ELSE IF IsList(value)
         THEN PyS(Join([i \in 1..Len(value.l) |-> StrOf(value.l[i])], CommaSpace))
    ELSE PyStr(value)

RECURSIVE GetCustomFieldValueFrom(_, _, _)
GetCustomFieldValueFrom(flds, ids, i) ==
    IF i > Len(ids) THEN EmptyStr
    ELSE IF ids[i] \in DOMAIN flds /\ flds[ids[i]] # None
         THEN NormalizeFound(flds[ids[i]])
    ELSE GetCustomFieldValueFrom(flds, ids, i + 1)

\* A resolver that takes the first candidate present in the payload, null or not.
RECURSIVE GetCustomFieldValueNullWinsFrom(_, _, _)
GetCustomFieldValueNullWinsFrom(flds, ids, i) ==
    IF i > Len(ids) THEN EmptyStr
    ELSE IF ids[i] \in DOMAIN flds
         THEN NormalizeFound(flds[ids[i]])
    ELSE GetCustomFieldValueNullWinsFrom(flds, ids, i + 1)

GetCustomFieldValueNullWins(flds, ids) == GetCustomFieldValueNullWinsFrom(flds, ids, 1)

GetCustomFieldValue(flds, ids) == GetCustomFieldValueFrom(flds, ids, 1)

(***************************************************************************)
(* main.py: extract_issue_data, the custom field loop                      *)
(***************************************************************************)
\* a or b
PyOr(a, b) == IF Truthy(a) THEN a ELSE b

\* One element of the list comprehension of the list branch.
MainListItem(item) ==
    IF IsDict(item) THEN StrOf(Get(item.m, "name", item)) ELSE StrOf(item)

\* The body of the loop for one field_id.
MainCustomField(flds, field_id) ==
    LET field_value == Get(flds, field_id, EmptyStr)
        converted ==
            IF IsDict(field_value)
            THEN PyOr(Get(field_value.m, "value", EmptyStr),
                      Get(field_value.m, "name", EmptyStr))
            ELSE IF IsList(field_value)
            THEN PyS(Join([i \in 1..Len(field_value.l) |->
                              MainListItem(field_value.l[i])], CommaSpace))
            ELSE field_value
    IN  IF Truthy(converted) THEN PyStr(converted) ELSE EmptyStr

(***************************************************************************)
(* String helpers: str.find, slicing, str.strip on lexeme sequences.       *)
(* Positions are 0-based as in Python; "name=" and "state=" are one lexeme *)
(* each, so the code's find(...) + 5 and find(...) + 6 advance by one.     *)
(***************************************************************************)
\* s.find(tok, start): the first position >= start holding tok, or -1.
RECURSIVE Find(_, _, _)
Find(s, tok, start) ==
    IF start >= Len(s) THEN -1
    ELSE IF s[start + 1] = tok THEN start
    ELSE Find(s, tok, start + 1)

\* tok in s
Contains(s, tok) == \E i \in 1..Len(s) : s[i] = tok

\* s[a:b] for 0 <= a <= b <= len(s)
Slice(s, a, b) == SubSeq(s, a + 1, b)

\* s.startswith(tok)
StartsWith(s, tok) == Len(s) > 0 /\ s[1] = tok

RECURSIVE LStrip(_)
LStrip(s) == IF Len(s) > 0 /\ s[1] = " " THEN LStrip(Tail(s)) ELSE s

RECURSIVE RStrip(_)
RStrip(s) ==
    IF Len(s) > 0 /\ s[Len(s)] = " " THEN RStrip(SubSeq(s, 1, Len(s) - 1)) ELSE s

\* s.strip()
Strip(s) == RStrip(LStrip(s))

Marker == "com.atlassian"
Closed == <<"CLOSED">>

(***************************************************************************)
(* main_v3.py: _parse_single_sprint and _extract_sprint_info               *)
(***************************************************************************)
\* A dict branch that never appends the state.
ParseSprintDictNameOnly(d) ==
    LET name == Get(d, "name", EmptyStr)
        sprint_id == Get(d, "id", EmptyStr)
    IN  IF Truthy(name) THEN PyStr(name)
        ELSE IF Truthy(sprint_id)
        THEN PyS(<<"Sprint", " ">> \o StrOf(sprint_id))
        ELSE None

\* The dict branch; None stands for falling out of the branch.
ParseSprintDict(d) ==
    LET name == Get(d, "name", EmptyStr)
        state == Get(d, "state", EmptyStr)
        sprint_id == Get(d, "id", EmptyStr)
    IN  IF Truthy(name)
        THEN IF Truthy(state) /\ state # PyS(Closed)
             THEN PyS(StrOf(name) \o <<" ", "(">> \o StrOf(state) \o <<")">>)
             ELSE PyStr(name)
        ELSE IF Truthy(sprint_id)
        THEN PyS(<<"Sprint", " ">> \o StrOf(sprint_id))
        ELSE None

\* A string branch that appends the state even when it is CLOSED.
ParseSprintStringKeepsClosed(s) ==
    IF ~Contains(s, "name=") THEN None
    ELSE
    LET name_start == Find(s, "name=", 0) + 1
        name_comma == Find(s, ",", name_start)
        name_end == IF name_comma = -1 THEN Find(s, "]", name_start) ELSE name_comma
    IN  IF ~(name_end > name_start) THEN None
        ELSE
        LET name == Slice(s, name_start, name_end)
        IN  IF ~Contains(s, "state=") THEN PyS(name)
            ELSE
            LET state_start == Find(s, "state=", 0) + 1
                state_comma == Find(s, ",", state_start)
                state_end == IF state_comma = -1
                             THEN Find(s, "]", state_start) ELSE state_comma
            IN  IF state_end > state_start
                THEN PyS(name \o <<" ", "(">>
                         \o Slice(s, state_start, state_end) \o <<")">>)
                ELSE PyS(name)

\* The `if 'name=' in sprint_data` block; None stands for falling out of it.
ParseSprintString(s) ==
    IF ~Contains(s, "name=") THEN None
    ELSE
    LET name_start == Find(s, "name=", 0) + 1
        name_comma == Find(s, ",", name_start)
        name_end == IF name_comma = -1 THEN Find(s, "]", name_start) ELSE name_comma
    IN  IF ~(name_end > name_start) THEN None
        ELSE
        LET name == Slice(s, name_start, name_end)
        IN  IF ~Contains(s, "state=") THEN PyS(name)
            ELSE
            LET state_start == Find(s, "state=", 0) + 1
                state_comma == Find(s, ",", state_start)
                state_end == IF state_comma = -1
                             THEN Find(s, "]", state_start) ELSE state_comma
            IN  IF state_end > state_start /\ Slice(s, state_start, state_end) # Closed
                THEN PyS(name \o <<" ", "(">>
                         \o Slice(s, state_start, state_end) \o <<")">>)
                ELSE PyS(name)

ParseSingleSprint(sd) ==
    IF IsDict(sd)
    THEN IF ParseSprintDict(sd.m) # None THEN ParseSprintDict(sd.m) ELSE EmptyStr
    ELSE IF IsStr(sd)
    THEN IF ParseSprintString(sd.s) # None THEN ParseSprintString(sd.s)
         ELSE IF ~StartsWith(sd.s, Marker) THEN PyS(Strip(sd.s))
         ELSE EmptyStr
    ELSE EmptyStr

SprintFieldId == "customfield_10104"

\* The names the loop over a sprint list appends to sprint_info.
RECURSIVE SprintNames(_)
SprintNames(l) ==
    IF Len(l) = 0 THEN <<>>
    ELSE LET sprint_name == ParseSingleSprint(l[1])
         IN  (IF Truthy(sprint_name) THEN <<sprint_name.s>> ELSE <<>>)
             \o SprintNames(Tail(l))

ExtractSprintInfoV3(flds) ==
    LET sprint_info ==
            IF SprintFieldId \in DOMAIN flds /\ flds[SprintFieldId] # None
            THEN LET data == flds[SprintFieldId]
                 IN  IF IsList(data) THEN SprintNames(data.l)
                     ELSE IF IsDict(data) \/ IsStr(data) THEN SprintNames(<<data>>)
                     ELSE <<>>
            ELSE <<>>
    IN  PyS(Join(sprint_info, CommaSpace))

(***************************************************************************)
(* main_v4_fetch_all_issues.py / main_v6_keyword_match.py:                 *)
(* _extract_sprint_info (the two files hold the same code)                 *)
(***************************************************************************)
ExtractSprintInfoV6(data) ==
    IF ~Truthy(data) THEN EmptyStr
    ELSE
    LET sprint == data.l[Len(data.l)]
        start == Find(sprint.s, "name=", 0) + 1
        comma == Find(sprint.s, ",", start)
        end == IF comma = -1 THEN Find(sprint.s, "]", start) ELSE comma
    IN  IF IsList(data) /\ IsStr(sprint) /\ Contains(sprint.s, "name=")
        THEN IF end > start THEN PyS(Slice(sprint.s, start, end)) ELSE EmptyStr
        ELSE IF IsList(data) /\ IsDict(sprint)
        THEN Get(sprint.m, "name", EmptyStr)
        ELSE PyStr(data)

(***************************************************************************)
(* Release context and issue records.                                      *)
(* A raised exception is the value Raised; a record is a dict of columns.  *)
(***************************************************************************)
Raised == [t |-> "raise"]

EmptyDict == PyD(EmptyMap)

\* fields.get(key, {}).get(attr, '') if fields.get(key) else ''
GuardedAttr(flds, key, attr) ==
    LET v == Get(flds, key, None)
    IN  IF ~Truthy(v) THEN EmptyStr
        ELSE IF IsDict(v) THEN Get(v.m, attr, EmptyStr)
        ELSE Raised

\* fields_data.get(key, {}).get(attr, ''): AttributeError on a null entry.
UnguardedAttr(flds, key, attr) ==
    LET v == Get(flds, key, EmptyDict)
    IN  IF IsDict(v) THEN Get(v.m, attr, EmptyStr) ELSE Raised

\* ', '.join(parts) for a Python list of values: TypeError unless all are str.
JoinValues(parts) ==
    IF \A i \in 1..Len(parts) : IsStr(parts[i])
    THEN PyS(Join([i \in 1..Len(parts) |-> parts[i].s], CommaSpace))
    ELSE Raised

\* ', '.join(fields.get('labels', [])): TypeError on a null entry.
JoinedLabels(flds) ==
    LET v == Get(flds, "labels", PyL(<<>>))
    IN  IF IsList(v) THEN JoinValues(v.l) ELSE Raised

\* ', '.join([v.get('name', '') for v in fields.get('fixVersions', [])])
JoinedFixVersions(flds) ==
    LET v == Get(flds, "fixVersions", PyL(<<>>))
    IN  IF IsList(v) /\ \A i \in 1..Len(v.l) : IsDict(v.l[i])
        THEN JoinValues([i \in 1..Len(v.l) |-> Get(v.l[i].m, "name", EmptyStr)])
        ELSE Raised

\* ', '.join([fv['name'] for fv in fields_data.get('fixVersions', [])])
JoinedFixVersionsV6(flds) ==
    LET v == Get(flds, "fixVersions", PyL(<<>>))
    IN  IF IsList(v) /\ \A i \in 1..Len(v.l) : IsDict(v.l[i]) /\ "name" \in DOMAIN v.l[i].m
        THEN JoinValues([i \in 1..Len(v.l) |-> v.l[i].m["name"]])
        ELSE Raised

\* A dict literal: Raised if the evaluation of any of its values raised.
DictOf(rec) == IF \E c \in DOMAIN rec : rec[c] = Raised THEN Raised ELSE PyD(rec)

\* 'Released' if version.get('released') else 'Unreleased'
StatusOf(version) ==
    IF Truthy(Get(version, "released", PyB(FALSE)))
    THEN PyS(<<"Released">>) ELSE PyS(<<"Unreleased">>)

\* main_v3.py fetch_releases: release_info
ReleaseInfoV3(pkey, version) ==
    [ Project_Key  |-> pkey,
      Version      |-> Get(version, "name", EmptyStr),
      Status       |-> StatusOf(version),
      Start_Date   |-> Get(version, "startDate", EmptyStr),
      Release_Date |-> Get(version, "releaseDate", EmptyStr),
      Description  |-> Get(version, "description", EmptyStr),
      Version_ID   |-> Get(version, "id", EmptyStr) ]

\* main_v6 get_project_versions: version_info (version['id'], version['name']
\* and version['released'] are read of a selected version, which has them).
VersionInfoV6(pkey, version) ==
    [ project_key  |-> pkey,
      version_id   |-> version["id"],
      version_name |-> version["name"],
      status       |-> StatusOf(version),
      start_date   |-> Get(version, "startDate", EmptyStr),
      release_date |-> Get(version, "releaseDate", EmptyStr),
      description  |-> Get(version, "description", EmptyStr) ]

FieldsOf(iss) == Get(iss, "fields", EmptyDict).m

\* _extract_issue_data without the three release columns.
ExtractIssueDataV3WithoutRelease(iss, rel) ==
    LET flds == FieldsOf(iss)
    IN  DictOf(
        [ Priority    |-> GuardedAttr(flds, "priority", "name"),
          Issue_Type  |-> GuardedAttr(flds, "issuetype", "name"),
          Issue_Key   |-> Get(iss, "key", EmptyStr),
          Summary     |-> Get(flds, "summary", EmptyStr),
          Assignee    |-> GuardedAttr(flds, "assignee", "displayName"),
          Reporter    |-> GuardedAttr(flds, "reporter", "displayName"),
          Status      |-> GuardedAttr(flds, "status", "name"),
          Resolution  |-> GuardedAttr(flds, "resolution", "name"),
          Fix_Version |-> JoinedFixVersions(flds),
          Labels      |-> JoinedLabels(flds),
          Description |-> Get(flds, "description", EmptyStr),
          SDLC_Information    |-> GetCustomFieldValue(flds, <<"customfield_15600">>),
          Application_Name    |-> GetCustomFieldValue(flds, <<"customfield_11700">>),
          Story_Points        |-> GetCustomFieldValue(flds, <<"customfield_10106">>),
          Sprint              |-> ExtractSprintInfoV3(flds),
          Acceptance_Criteria |-> GetCustomFieldValue(flds, <<"customfield_10601">>),
          Feature_Link        |-> GetCustomFieldValue(flds, <<"customfield_10100">>),
          Notes               |-> GetCustomFieldValue(flds, <<"customfield_10602">>) ])

\* main_v3.py _extract_issue_data(issue, release)
ExtractIssueDataV3(iss, rel) ==
    LET flds == FieldsOf(iss)
    IN  DictOf(
        [ Project_Key     |-> rel["Project_Key"],
          Release_Version |-> rel["Version"],
          Release_Date    |-> rel["Release_Date"],
          Priority    |-> GuardedAttr(flds, "priority", "name"),
          Issue_Type  |-> GuardedAttr(flds, "issuetype", "name"),
          Issue_Key   |-> Get(iss, "key", EmptyStr),
          Summary     |-> Get(flds, "summary", EmptyStr),
          Assignee    |-> GuardedAttr(flds, "assignee", "displayName"),
          Reporter    |-> GuardedAttr(flds, "reporter", "displayName"),
          Status      |-> GuardedAttr(flds, "status", "name"),
          Resolution  |-> GuardedAttr(flds, "resolution", "name"),
          Fix_Version |-> JoinedFixVersions(flds),
          Labels      |-> JoinedLabels(flds),
          Description |-> Get(flds, "description", EmptyStr),
          SDLC_Information    |-> GetCustomFieldValue(flds, <<"customfield_15600">>),
          Application_Name    |-> GetCustomFieldValue(flds, <<"customfield_11700">>),
          Story_Points        |-> GetCustomFieldValue(flds, <<"customfield_10106">>),
          Sprint              |-> ExtractSprintInfoV3(flds),
          Acceptance_Criteria |-> GetCustomFieldValue(flds, <<"customfield_10601">>),
          Feature_Link        |-> GetCustomFieldValue(flds, <<"customfield_10100">>),
          Notes               |-> GetCustomFieldValue(flds, <<"customfield_10602">>) ])

\* main_v4 / main_v6 get_issues_for_version: issue_info of one issue.
IssueInfoV6(iss, pkey, version_name) ==
    LET flds == FieldsOf(iss)
    IN  DictOf(
        [ issue_key   |-> IF "key" \in DOMAIN iss THEN iss["key"] ELSE Raised,
          summary     |-> Get(flds, "summary", EmptyStr),
          issue_type  |-> UnguardedAttr(flds, "issuetype", "name"),
          priority    |-> UnguardedAttr(flds, "priority", "name"),
          status      |-> UnguardedAttr(flds, "status", "name"),
          resolution  |-> GuardedAttr(flds, "resolution", "name"),
          assignee    |-> GuardedAttr(flds, "assignee", "displayName"),
          reporter    |-> GuardedAttr(flds, "reporter", "displayName"),
          fix_versions |-> JoinedFixVersionsV6(flds),
          labels      |-> JoinedLabels(flds),
          description |-> Get(flds, "description", EmptyStr),
          sdlc_information    |-> Get(flds, "customfield_15600", EmptyStr),
          application_name    |-> Get(flds, "customfield_11700", EmptyStr),
          story_points        |-> Get(flds, "customfield_10106", EmptyStr),
          sprint              |-> ExtractSprintInfoV6(Get(flds, SprintFieldId, None)),
          acceptance_criteria |-> Get(flds, "customfield_10601", EmptyStr),
          feature_link        |-> Get(flds, "customfield_10100", EmptyStr),
          notes               |-> Get(flds, "customfield_10602", EmptyStr),
          version_name |-> version_name,
          project_key  |-> pkey ])

\* main_v4 / main_v6 extract_release_data: issue.update({...}) with the
\* version metadata.
WithVersionMetadata(issue_info, version) ==
    IF issue_info = Raised THEN Raised
    ELSE PyD([ version_id           |-> version["version_id"],
               version_status       |-> version["status"],
               version_start_date   |-> version["start_date"],
               version_release_date |-> version["release_date"],
               version_description  |-> version["description"] ]
             @@ issue_info.m)

\* main.py extract_issue_data: the description column.
\* fields.get('description', {}).get('content', [{}])[0].get('content', [{}])[0]
\*     .get('text', '') if fields.get('description') else ''
FirstOfContent(d) ==
    IF d = Raised \/ ~IsDict(d) THEN Raised
    ELSE LET content == Get(d.m, "content", PyL(<<EmptyDict>>))
         IN  IF IsList(content) /\ Len(content.l) > 0 THEN content.l[1] ELSE Raised

DescriptionMain(flds) ==
    LET d == Get(flds, "description", None)
    IN  IF ~Truthy(d) THEN EmptyStr
        ELSE LET paragraph == FirstOfContent(FirstOfContent(d))
             IN  IF paragraph = Raised \/ ~IsDict(paragraph) THEN Raised
                 ELSE Get(paragraph.m, "text", EmptyStr)

\* main.py extract_issue_data(issue)
ExtractIssueDataMain(iss) ==
    LET flds == FieldsOf(iss)
    IN  DictOf(
        [ issue_key   |-> Get(iss, "key", EmptyStr),
          summary     |-> Get(flds, "summary", EmptyStr),
          description |-> DescriptionMain(flds),
          priority    |-> GuardedAttr(flds, "priority", "name"),
          issue_type  |-> GuardedAttr(flds, "issuetype", "name"),
          assignee    |-> GuardedAttr(flds, "assignee", "displayName"),
          reporter    |-> GuardedAttr(flds, "reporter", "displayName"),
          status      |-> GuardedAttr(flds, "status", "name"),
          resolution  |-> GuardedAttr(flds, "resolution", "name"),
          labels      |-> JoinedLabels(flds),
          fix_versions |-> JoinedFixVersions(flds),
          story_points        |-> MainCustomField(flds, "customfield_10016"),
          sprint              |-> MainCustomField(flds, "customfield_10020"),
          acceptance_criteria |-> MainCustomField(flds, "customfield_10030"),
          feature_link        |-> MainCustomField(flds, "customfield_10040"),
          notes               |-> MainCustomField(flds, "customfield_10050"),
          sdlc_information    |-> MainCustomField(flds, "customfield_10060"),
          application_name    |-> MainCustomField(flds, "customfield_10070") ])

\* main.py fetch_releases_and_issues_multiple_projects: the record of one
\* issue of one release.
IssueDataMain(iss, pkey, rel) ==
    LET issue_data == ExtractIssueDataMain(iss)
    IN  IF issue_data = Raised THEN Raised
        ELSE PyD([ release_version |-> Get(rel, "name", EmptyStr),
                   release_date    |-> Get(rel, "releaseDate", EmptyStr),
                   project_key     |-> pkey ]
                 @@ issue_data.m)

(***************************************************************************)
(* Release selection.  A date string is a sequence of lexemes such as      *)
(* <<"2024", "-", "06", "-", "15">>.                                       *)
(***************************************************************************)
\* The digit groups %Y (four digits), %m and %d (one or two digits) accept,
\* with their values.
YearValue == [ x \in {"2023", "2024", "2025"} |->
                 CASE x = "2023" -> 2023 [] x = "2024" -> 2024 [] x = "2025" -> 2025 ]

TwoDigitValue ==
    [ x \in {"01", "02", "6", "06", "07", "12", "13", "15", "29", "30", "31"} |->
        CASE x = "01" -> 1 [] x = "02" -> 2 [] x = "6" -> 6 [] x = "06" -> 6
          [] x = "07" -> 7 [] x = "12" -> 12 [] x = "13" -> 13 [] x = "15" -> 15
          [] x = "29" -> 29 [] x = "30" -> 30 [] x = "31" -> 31 ]

IsLeap(y) == (y % 4 = 0 /\ y % 100 # 0) \/ y % 400 = 0

DaysIn(y, m) ==
    IF m = 2 THEN (IF IsLeap(y) THEN 29 ELSE 28)
    ELSE IF m \in {4, 6, 9, 11} THEN 30 ELSE 31

ValueError == <<>>

\* datetime.strptime(text, '%Y-%m-%d'): the date as <<year, month, day>>, or
\* ValueError.
Strptime(text) ==
    IF /\ Len(text) = 5
       /\ text[2] = "-" /\ text[4] = "-"
       /\ text[1] \in DOMAIN YearValue
       /\ text[3] \in DOMAIN TwoDigitValue
       /\ text[5] \in DOMAIN TwoDigitValue
    THEN LET y == YearValue[text[1]]
             m == TwoDigitValue[text[3]]
             d == TwoDigitValue[text[5]]
         IN  IF m \in 1..12 /\ d \in 1..DaysIn(y, m) THEN <<y, m, d>> ELSE ValueError
    ELSE ValueError

\* a <= b for dates
DateLE(a, b) ==
    \/ a[1] < b[1]
    \/ a[1] = b[1] /\ a[2] < b[2]
    \/ a[1] = b[1] /\ a[2] = b[2] /\ a[3] <= b[3]

\* start <= date <= end, read as "never out of range".
IsDateInRangeUnlessInvalid(date_str, start, end) ==
    LET date_obj == Strptime(date_str)
        start_obj == Strptime(start)
        end_obj == Strptime(end)
    IN  IF date_obj = ValueError \/ start_obj = ValueError \/ end_obj = ValueError
        THEN TRUE
        ELSE DateLE(start_obj, date_obj) /\ DateLE(date_obj, end_obj)

\* main_v3.py _is_date_in_range(date_str, start_date, end_date)
IsDateInRange(date_str, start, end) ==
    LET date_obj == Strptime(date_str)
        start_obj == Strptime(start)
        end_obj == Strptime(end)
    IN  IF date_obj = ValueError \/ start_obj = ValueError \/ end_obj = ValueError
        THEN FALSE
        ELSE DateLE(start_obj, date_obj) /\ DateLE(date_obj, end_obj)

\* version.get('released', False) and version.get('releaseDate')
ReleasedWithDate(version) ==
    /\ Truthy(Get(version, "released", PyB(FALSE)))
    /\ Truthy(Get(version, "releaseDate", None))

\* main_v3.py fetch_releases: the loop over the versions of one project.
RECURSIVE ReleasesOfProjectV3(_, _, _, _)
ReleasesOfProjectV3(pkey, vs, start, end) ==
    IF vs = <<>> THEN <<>>
    ELSE LET version == Head(vs)
             rest == ReleasesOfProjectV3(pkey, Tail(vs), start, end)
         IN  IF ReleasedWithDate(version)
                /\ IsDateInRange(version["releaseDate"].s, start, end)
             THEN <<PyD(ReleaseInfoV3(pkey, version))>> \o rest
             ELSE rest

\* main_v4 / main_v6 get_project_versions: the loop over the versions of one
\* project; a ValueError of strptime ends the loop (except Exception, line 97)
\* and what was appended before stays.
RECURSIVE VersionsOfProjectV6(_, _, _, _)
VersionsOfProjectV6(pkey, vs, start, end) ==
    IF vs = <<>> THEN <<>>
    ELSE LET version == Head(vs)
             rest == VersionsOfProjectV6(pkey, Tail(vs), start, end)
         IN  IF ~ReleasedWithDate(version) THEN rest
             ELSE LET release_date == Strptime(version["releaseDate"].s)
                      start_dt == Strptime(start)
                      end_dt == Strptime(end)
                  IN  IF release_date = ValueError \/ start_dt = ValueError
                            \/ end_dt = ValueError
                      THEN <<>>
                      ELSE IF DateLE(start_dt, release_date) /\ DateLE(release_date, end_dt)
                      THEN <<PyD(VersionInfoV6(pkey, version))>> \o rest
                      ELSE rest

\* main.py get_releases_in_date_range: the loop over versions_data; raised
\* tells whether strptime raised, rows are the versions appended before.
RECURSIVE ReleasedVersionsMain(_, _, _)
ReleasedVersionsMain(vs, start, end) ==
    IF vs = <<>> THEN [raised |-> FALSE, rows |-> <<>>]
    ELSE LET version == Head(vs)
             rest == ReleasedVersionsMain(Tail(vs), start, end)
         IN  IF ~ReleasedWithDate(version) THEN rest
             ELSE LET release_date == Strptime(version["releaseDate"].s)
                      start_dt == Strptime(start)
                      end_dt == Strptime(end)
                  IN  IF release_date = ValueError \/ start_dt = ValueError
                            \/ end_dt = ValueError
                      THEN [raised |-> TRUE, rows |-> <<>>]
                      ELSE IF DateLE(start_dt, release_date) /\ DateLE(release_date, end_dt)
                      THEN [raised |-> rest.raised, rows |-> <<PyD(version)>> \o rest.rows]
                      ELSE rest

\* main.py get_releases_in_date_range(project_key, start_date, end_date):
\* except Exception returns [].
GetReleasesInDateRange(vs, start, end) ==
    LET released_versions == ReleasedVersionsMain(vs, start, end)
    IN  IF released_versions.raised THEN <<>> ELSE released_versions.rows

(***************************************************************************)
(* Aggregation: the issue table of a list of selected releases.  The       *)
(* answer of the search request of a release is a record: ok is FALSE when *)
(* the request fails, issues is the page of raw issues otherwise.          *)
(***************************************************************************)
\* main_v3.py fetch_issues_for_releases: the loop over the issues of one
\* release.  An exception of _extract_issue_data is not a RequestException and
\* leaves the function: raised tells whether that happened, rows are the
\* records appended before.
RECURSIVE IssueDataOfRelease(_, _)
IssueDataOfRelease(page, rel) ==
    IF page = <<>> THEN [raised |-> FALSE, rows |-> <<>>]
    ELSE LET issue_data == ExtractIssueDataV3(Head(page), rel)
             rest == IssueDataOfRelease(Tail(page), rel)
         IN  IF issue_data = Raised THEN [raised |-> TRUE, rows |-> <<>>]
             ELSE [raised |-> rest.raised, rows |-> <<issue_data>> \o rest.rows]

\* main_v3.py fetch_issues_for_releases(releases)
RECURSIVE FetchIssuesForReleases(_, _)
FetchIssuesForReleases(rels, resps) ==
    IF rels = <<>> THEN [raised |-> FALSE, rows |-> <<>>]
    ELSE LET first == IF Head(resps).ok
                      THEN IssueDataOfRelease(Head(resps).issues, Head(rels))
                      ELSE [raised |-> FALSE, rows |-> <<>>]
         IN  IF first.raised THEN first
             ELSE LET rest == FetchIssuesForReleases(Tail(rels), Tail(resps))
                  IN  [raised |-> rest.raised, rows |-> first.rows \o rest.rows]

\* main_v4 / main_v6 get_issues_for_version: the loop over one page; the first
\* exception ends the loop and the records built so far are returned.
RECURSIVE IssueInfosOfPage(_, _, _)
IssueInfosOfPage(page, pkey, version_name) ==
    IF page = <<>> THEN <<>>
    ELSE LET issue_info == IssueInfoV6(Head(page), pkey, version_name)
         IN  IF issue_info = Raised THEN <<>>
             ELSE <<issue_info>> \o IssueInfosOfPage(Tail(page), pkey, version_name)

\* get_issues_for_version(project_key, version_name) for a version whose
\* issues fit one page.
GetIssuesForVersionOnePage(pkey, version_name, resp) ==
    IF resp.ok THEN IssueInfosOfPage(resp.issues, pkey, version_name) ELSE <<>>

\* main_v4 / main_v6 extract_release_data: the loop over versions_data.
RECURSIVE AllIssues(_, _)
AllIssues(versions_data, resps) ==
    IF versions_data = <<>> THEN <<>>
    ELSE LET version == Head(versions_data)
             found == GetIssuesForVersionOnePage(version["project_key"],
                                                 version["version_name"], Head(resps))
         IN  [n \in 1..Len(found) |-> WithVersionMetadata(found[n], version)]
             \o AllIssues(Tail(versions_data), Tail(resps))

(***************************************************************************)
(* Keyword search.  Here a string is a sequence of one-character lexemes.  *)
(* A table is a record of its columns and its rows, a row a function from  *)
(* the columns to values, None standing for a missing value (NaN).         *)
(***************************************************************************)
\* str.lower() of one character, and of a string
LowerChar(c) == CASE c = "A" -> "a" [] c = "B" -> "b" [] OTHER -> c

Lower(str) == [i \in 1..Len(str) |-> LowerChar(str[i])]

\* sub in str
IsSubstring(sub, str) ==
    \E i \in 0..(Len(str) - Len(sub)) : SubSeq(str, i + 1, i + Len(sub)) = sub

\* keywords.split(',')
RECURSIVE Split(_)
Split(str) ==
    LET at == Find(str, ",", 0)
    IN  IF at = -1 THEN <<str>>
        ELSE <<Slice(str, 0, at)>> \o Split(Slice(str, at + 1, Len(str)))

\* [keyword.strip() for keyword in keywords.split(',')]
KeywordList(kws) == LET parts == Split(kws) IN [i \in 1..Len(parts) |-> Strip(parts[i])]

search_columns == <<"version_description", "acceptance_criteria", "notes", "description">>

\* [col for col in search_columns if col in df.columns]
AvailableSearchColumns(table) == SelectSeq(search_columns, LAMBDA col : col \in table.columns)

\* str(row[column]).lower(), missing values included
ColumnValueOfAnything(value) == Lower(StrOf(value))

\* str(row[column]).lower() if pd.notna(row[column]) else ""
ColumnValue(value) == IF value = None THEN <<>> ELSE Lower(StrOf(value))

\* keyword in column_value, letter case as given
KeywordMatchesCaseSensitive(keyword, column_value) == IsSubstring(keyword, column_value)

\* keyword.lower() in column_value
KeywordMatches(keyword, column_value) == IsSubstring(Lower(keyword), column_value)

\* The loop over keyword_list for one column of one row.
RECURSIVE ColumnMatches(_, _, _)
ColumnMatches(row, column, keyword_list) ==
    IF keyword_list = <<>> THEN <<>>
    ELSE (IF KeywordMatches(Head(keyword_list), ColumnValue(row[column]))
          THEN << [matched_keyword |-> Head(keyword_list), matched_column |-> column,
                   row_data |-> row] >>
          ELSE <<>>)
         \o ColumnMatches(row, column, Tail(keyword_list))

\* The loop over available_search_columns for one row: row_matches.
RECURSIVE RowMatches(_, _, _)
RowMatches(row, columns, keyword_list) ==
    IF columns = <<>> THEN <<>>
    ELSE (IF ColumnValue(row[Head(columns)]) # <<>>
          THEN ColumnMatches(row, Head(columns), keyword_list)
          ELSE <<>>)
         \o RowMatches(row, Tail(columns), keyword_list)

\* The loop over df.iterrows(): matched_records.
RECURSIVE MatchedRecords(_, _, _)
MatchedRecords(rows, columns, keyword_list) ==
    IF rows = <<>> THEN <<>>
    ELSE RowMatches(Head(rows), columns, keyword_list)
         \o MatchedRecords(Tail(rows), columns, keyword_list)

\* row_dict, with the keyword in lower case
FilteredRowLowerKeyword(match) ==
    [ matched_keyword |-> PyS(Lower(match.matched_keyword)),
      matched_column  |-> PyS(<<match.matched_column>>) ] @@ match.row_data

\* row_dict, with matched_keyword and matched_column added
FilteredRow(match) ==
    [ matched_keyword |-> PyS(match.matched_keyword),
      matched_column  |-> PyS(<<match.matched_column>>) ] @@ match.row_data

\* search_keywords_in_data(df, keywords): the rows of the returned table.
SearchKeywordsInData(table, kws) ==
    IF table.rows = <<>> \/ table.columns = {} THEN <<>>
    ELSE IF AvailableSearchColumns(table) = <<>> THEN <<>>
    ELSE LET matched_records ==
                 MatchedRecords(table.rows, AvailableSearchColumns(table), KeywordList(kws))
         IN  [n \in 1..Len(matched_records) |-> FilteredRow(matched_records[n])]

(***************************************************************************)
(* The loop over the project keys.  The answer of the versions request of  *)
(* a project is a record: ok is FALSE when the request fails, versions is  *)
(* the list of its versions otherwise; issues is what main.py's            *)
(* get_issues_for_version returns for a release of the project.            *)
(***************************************************************************)
\* [key.strip() for key in project_keys.split(',')]
ProjectListV3(str) == LET parts == Split(str) IN [i \in 1..Len(parts) |-> Strip(parts[i])]

\* [key.strip() for key in project_keys_str.split(',') if key.strip()]
ProjectKeysMain(str) == SelectSeq(ProjectListV3(str), LAMBDA key : key # <<>>)

\* The loop over the project keys, left at the first request that fails.
RECURSIVE FetchReleasesUntilFailure(_, _, _, _)
FetchReleasesUntilFailure(project_list, found, start, end) ==
    IF project_list = <<>> \/ ~Head(found).ok THEN <<>>
    ELSE ReleasesOfProjectV3(PyS(Head(project_list)), Head(found).versions, start, end)
         \o FetchReleasesUntilFailure(Tail(project_list), Tail(found), start, end)

\* main_v3.py fetch_releases: the loop over project_list; a RequestException
\* of the versions request goes on to the next key.
RECURSIVE FetchReleases(_, _, _, _)
FetchReleases(project_list, found, start, end) ==
    IF project_list = <<>> THEN <<>>
    ELSE (IF Head(found).ok
          THEN ReleasesOfProjectV3(PyS(Head(project_list)), Head(found).versions, start, end)
          ELSE <<>>)
         \o FetchReleases(Tail(project_list), Tail(found), start, end)

\* main_v4 / main_v6 get_project_versions: the loop over project_keys; any
\* exception of a project is logged and the loop goes on.
RECURSIVE GetProjectVersions(_, _, _, _)
GetProjectVersions(keys, found, start, end) ==
    IF keys = <<>> THEN <<>>
    ELSE (IF Head(found).ok
          THEN VersionsOfProjectV6(PyS(Head(keys)), Head(found).versions, start, end)
          ELSE <<>>)
         \o GetProjectVersions(Tail(keys), Tail(found), start, end)

\* main.py fetch_releases_and_issues_multiple_projects: release_data
ReleaseDataMain(pkey, rel) ==
    PyD([ version      |-> Get(rel, "name", EmptyStr),
          status       |-> StatusOf(rel),
          start_date   |-> Get(rel, "startDate", EmptyStr),
          release_date |-> Get(rel, "releaseDate", EmptyStr),
          description  |-> Get(rel, "description", EmptyStr),
          project_key  |-> pkey ])

\* What one pass of a loop body leaves: the value appended, and what the
\* later passes append unless the value is an exception.
AppendThen(appended, later) == <<appended>> \o (IF appended = Raised THEN <<>> ELSE later)

\* What a try block leaves: what was appended before the exception, or
\* everything and what follows.
UntilRaised(appended, later) ==
    IF appended[Len(appended)] = Raised
    THEN SubSeq(appended, 1, Len(appended) - 1)
    ELSE appended \o later

\* main.py: the loop over the issues of one release.  The value is the list
\* of what was appended to all_issues_data, followed by Raised when
\* extract_issue_data raised.
RECURSIVE IssuesOfReleaseMain(_, _, _)
IssuesOfReleaseMain(page, pkey, rel) ==
    IF page = <<>> THEN <<>>
    ELSE AppendThen(IssueDataMain(Head(page), pkey, rel),
                    IssuesOfReleaseMain(Tail(page), pkey, rel))

\* main.py: the loop over the releases of one project, as the list of what
\* was appended to all_releases_data and all_issues_data, in that order; an
\* exception ends the loop (except Exception: continue) and what was
\* appended before stays.
RECURSIVE ProjectDataMain(_, _, _)
ProjectDataMain(pkey, rels, page) ==
    IF rels = <<>> THEN <<>>
    ELSE UntilRaised(<<ReleaseDataMain(pkey, Head(rels).m)>>
                        \o IssuesOfReleaseMain(page, pkey, Head(rels).m),
                     ProjectDataMain(pkey, Tail(rels), page))

\* main.py fetch_releases_and_issues_multiple_projects: what the loop over
\* project_keys appends to all_releases_data and all_issues_data.
RECURSIVE FetchReleasesAndIssues(_, _, _, _)
FetchReleasesAndIssues(keys, found, start, end) ==
    IF keys = <<>> THEN <<>>
    ELSE ProjectDataMain(PyS(Head(keys)),
                         IF Head(found).ok
                         THEN GetReleasesInDateRange(Head(found).versions, start, end)
                         ELSE <<>>,
                         Head(found).issues)
         \o FetchReleasesAndIssues(Tail(keys), Tail(found), start, end)

\* pd.DataFrame(all_releases_data) and pd.DataFrame(all_issues_data): the
\* records with a version and the records with an issue_key.  (The column
\* lists of lines 237-248 name every key of the records, so both frames keep
\* them.)
Frames(appended) ==
    PyD([ releases_df |-> PyL(SelectSeq(appended, LAMBDA row : "version" \in DOMAIN row.m)),
          issues_df   |-> PyL(SelectSeq(appended, LAMBDA row : "issue_key" \in DOMAIN row.m)) ])

(***************************************************************************)
(* Pagination of get_issues_for_version.  The matching issues of a version *)
(* are numbered 1..total in server order; the server answers a search with *)
(* at most cap issues from offset startAt, fails the request numbered      *)
(* fail_at, and holds one issue, numbered bad, whose conversion raises     *)
(* (0: no such request, no such issue).                                    *)
(***************************************************************************)
maxResults == 1000

\* response.get('issues', []) of the request sent with startAt = start
PageAt(srv, start) ==
    LET size == IF srv.cap < maxResults THEN srv.cap ELSE maxResults
        last == IF start + size < srv.total THEN start + size ELSE srv.total
    IN  [i \in 1..(last - start) |-> start + i]

\* The records of a page, none of them kept when a conversion raises.
ConvertedOrNone(page, bad) ==
    IF \E i \in 1..Len(page) : page[i] = bad THEN <<>> ELSE page

\* main_v4 / main_v6: the records appended by `for issue in issues` until a
\* conversion raises.
Converted(page, bad) ==
    IF \E i \in 1..Len(page) : page[i] = bad
    THEN SubSeq(page, 1, (CHOOSE i \in 1..Len(page) : page[i] = bad) - 1)
    ELSE page

\* The loop goes on after every page that is not empty.
ContinuesUnlessEmpty(page) == Len(page) > 0

\* not (len(issues) < params['maxResults'])
Continues(page) == ~(Len(page) < maxResults)

(***************************************************************************)
(* Inputs.                                                                 *)
(***************************************************************************)
FieldIds == {"customfield_15600", "customfield_11700", "customfield_10106"}

\* What a custom field of a payload may hold in the resolution runs.
PayloadValues ==
    { None, PyS(<<"A">>), PyN(0),
      PyD([k \in {"value"} |-> PyS(<<"B">>)]),
      PyL(<<PyS(<<"C">>), PyN(5)>>) }

Payloads ==
    UNION { [ids -> PayloadValues] : ids \in SUBSET FieldIds }

CandidateLists ==
    UNION { [1..n -> FieldIds] : n \in 0..MaxCandidates }

\* Raw field values handed to the normalizers.
Scalars ==
    { PyS(<<>>), PyS(<<"A">>), PyS(<<"B">>), PyN(0), PyN(5), PyB(FALSE), PyB(TRUE) }

EntryValues ==
    Scalars \cup { None, PyD([k \in {"name"} |-> PyS(<<"X">>)]), PyL(<<PyS(<<"A">>)>>) }

Mappings ==
    { PyD(m) : m \in UNION { [ks -> EntryValues] : ks \in SUBSET {"value", "name"} } }

ListElements ==
    { None, PyS(<<>>), PyS(<<"X">>), PyN(0),
      PyD(EmptyMap),
      PyD([k \in {"name"} |-> PyS(<<"X">>)]),
      PyD([k \in {"name"} |-> PyS(<<"Y">>)]),
      PyD([k \in {"value"} |-> PyS(<<"V">>)]),
      PyD([k \in {"value", "name"} |-> IF k = "value" THEN PyS(<<"V">>) ELSE PyS(<<"X">>)]),
      PyL(<<>>), PyL(<<PyS(<<"X">>)>>) }

Lists ==
    { PyL(l) : l \in UNION { [1..n -> ListElements] : n \in 0..MaxListLen } }

RawFieldValues == {None} \cup Scalars \cup Mappings \cup Lists

\* The field id the normalization runs read: Story_Points in main_v3.py,
\* story_points in main.py.
StoryPointsV3 == "customfield_10106"
StoryPointsMain == "customfield_10016"

\* Sprint mappings: every combination of name, state and id entries.
SprintNameText == <<"Sprint", " ", "7">>

SprintEntry(names, states, ids) ==
    { [k \in ks |-> IF k = "name" THEN n ELSE IF k = "state" THEN st ELSE i] :
        ks \in SUBSET {"name", "state", "id"}, n \in names, st \in states, i \in ids }

SprintMappings ==
    { PyD(m) : m \in SprintEntry({None, EmptyStr, PyS(SprintNameText)},
                                 {EmptyStr, PyS(<<"ACTIVE">>), PyS(Closed)},
                                 {PyN(0), PyN(5)}) }

\* Sprint strings: an optional prefix followed by up to MaxSegments key=value
\* segments, each with or without a terminator.
Terminators == { <<>>, <<",">>, <<"]">> }

Segments ==
    { <<"name=">> \o v \o t : v \in {<<>>, SprintNameText}, t \in Terminators }
    \cup { <<"state=">> \o v \o t : v \in {<<>>, <<"ACTIVE">>, Closed}, t \in Terminators }
    \cup { <<"id=", "42">> \o t : t \in {<<",">>, <<"]">>} }

Prefixes == { <<>>, <<" ">>, <<Marker, "[">>, <<" ", Marker, "[">> }

RECURSIVE SegmentRuns(_)
SegmentRuns(n) ==
    IF n = 0 THEN { <<>> }
    ELSE SegmentRuns(n - 1)
         \cup { a \o b : a \in SegmentRuns(n - 1), b \in Segments }

SprintStrings ==
    { PyS(pre \o body) : pre \in Prefixes, body \in SegmentRuns(MaxSegments) }

SingleSprints ==
    SprintMappings \cup SprintStrings
    \cup { None, PyN(0), PyN(3), PyB(TRUE), PyS(<<"Backlog">>), PyS(<<" ", "Backlog", " ">>) }

\* What a sprint list holds.
SprintListElements ==
    { None, PyN(3),
      PyS(<<"Backlog">>),
      PyS(<<" ", "Backlog", " ">>),
      PyS(<<Marker, "[", "id=", "42", "]">>),
      PyS(<<Marker, "[", "id=", "42", ",", "name=">> \o SprintNameText
            \o <<",", "state=", "ACTIVE", "]">>),
      PyD(EmptyMap),
      PyD([k \in {"id"} |-> PyN(5)]),
      PyD([k \in {"id"} |-> PyN(0)]),
      PyD([k \in {"name"} |-> PyS(<<"A">>)]),
      PyD([k \in {"name"} |-> PyS(SprintNameText)]),
      PyD([k \in {"name", "state"} |->
              IF k = "name" THEN PyS(SprintNameText) ELSE PyS(<<"ACTIVE">>)]) }

SprintLists ==
    { PyL(l) : l \in UNION { [1..n -> SprintListElements] : n \in 0..MaxListLen } }

\* What the sprint field of a payload holds.
SprintValues == SprintMappings \cup SprintListElements \cup SprintLists

SprintPayloads ==
    { EmptyMap } \cup { [k \in {SprintFieldId} |-> v] : v \in SprintValues }

\* Raw issues: a fully populated issue in which up to MaxNullFields entries
\* are null or missing, or the description is a document.
MaxNullFields == 2

NameDict(attr, text) == PyD([k \in {attr} |-> PyS(<<text>>)])

Document ==
    PyD([k \in {"content"} |->
        PyL(<<PyD([k2 \in {"content"} |->
            PyL(<<PyD([k3 \in {"text"} |-> PyS(<<"Text">>)])>>)])>>)])

BaseFields ==
    [ priority    |-> NameDict("name", "High"),
      issuetype   |-> NameDict("name", "Bug"),
      status      |-> NameDict("name", "Done"),
      resolution  |-> NameDict("name", "Fixed"),
      assignee    |-> NameDict("displayName", "Ann"),
      reporter    |-> NameDict("displayName", "Bob"),
      labels      |-> PyL(<<PyS(<<"ui">>), PyS(<<"db">>)>>),
      fixVersions |-> PyL(<<NameDict("name", "1.0")>>),
      summary     |-> PyS(<<"Fix">>),
      description |-> PyS(<<"Text">>),
      customfield_10106 |-> PyN(5),
      customfield_10016 |-> PyN(5),
      customfield_10601 |-> PyS(<<"Given">>),
      customfield_10104 |-> PyL(<<PyD([k \in {"name"} |-> PyS(SprintNameText)])>>) ]

\* The entries C13 names, by their key in the payload.
NullSafeKeys ==
    { "priority", "issuetype", "status", "resolution", "assignee", "reporter",
      "labels", "fixVersions", "description" }

FieldsWith(how) ==
    [ k \in (DOMAIN BaseFields) \ { x \in DOMAIN how : how[x] = "missing" } |->
        IF k \notin DOMAIN how THEN BaseFields[k]
        ELSE IF how[k] = "null" THEN None ELSE Document ]

\* how: which entries are null, missing or (the description only) a document.
IssuePayloads ==
    { FieldsWith(how) :
        how \in UNION { { h \in [ks -> {"null", "missing", "document"}] :
                            \A k \in ks : h[k] = "document" => k = "description" } :
                        ks \in { x \in SUBSET (NullSafeKeys \cup
                                    {"summary", "customfield_10106", "customfield_10104"}) :
                                  Cardinality(x) <= MaxNullFields } } }

Issues ==
    { [k \in {"key", "fields"} |-> IF k = "key" THEN PyS(<<"PROJ-1">>) ELSE PyD(f)] :
        f \in IssuePayloads }

ProjectKeys == { PyS(<<"PROJ">>), PyS(<<"OPS">>) }

\* What numbers the issues of a page and the versions of a project.
Numerals == <<"1", "2", "3">>

\* Released versions inside the window, fully and sparsely described.
SelectedVersions ==
    { [ id |-> PyS(<<"10001">>), name |-> PyS(<<"1.0">>), released |-> PyB(TRUE),
        releaseDate |-> PyS(<<"2024", "-", "06", "-", "15">>),
        startDate |-> PyS(<<"2024", "-", "01", "-", "01">>),
        description |-> PyS(<<"First">>) ],
      [ id |-> PyS(<<"10002">>), name |-> PyS(<<"1.1">>), released |-> PyB(TRUE),
        releaseDate |-> PyS(<<"2024", "-", "12", "-", "31">>) ] }

\* Aggregation inputs: up to MaxReleases distinct selected releases, each
\* answered by a failure or by a page of up to MaxIssues issues.
MaxReleases == 2
MaxIssues == 2

SelectedReleases ==
    { <<pk, v>> : pk \in {PyS(<<"PROJ">>)}, v \in SelectedVersions }
    \cup { <<PyS(<<"OPS">>), v>> : v \in { x \in SelectedVersions : "description" \in DOMAIN x } }

ReleaseLists ==
    UNION { { l \in [1..n -> SelectedReleases] : \A a, b \in 1..n : l[a] = l[b] => a = b } :
            n \in 0..MaxReleases }

IssueNumbered(n, flds) ==
    [k \in {"key", "fields"} |-> IF k = "key" THEN PyS(<<"PROJ-", n>>) ELSE PyD(flds)]

\* The n-th issue of a page: fully populated, or without a priority.
PageIssues(n) ==
    { IssueNumbered(n, BaseFields),
      IssueNumbered(n, FieldsWith([k \in {"priority"} |-> "null"])) }

Pages ==
    UNION { { p \in [1..n -> UNION { PageIssues(Numerals[i]) : i \in 1..n }] :
                \A i \in 1..n : p[i] \in PageIssues(Numerals[i]) } :
            n \in 0..MaxIssues }

Responses ==
    { [ok |-> FALSE, issues |-> <<>>] } \cup { [ok |-> TRUE, issues |-> p] : p \in Pages }

\* Release selection inputs: the versions of one project, up to MaxVersions of
\* them, and a valid range.
MaxVersions == 2

Date(y, m, d) == <<y, "-", m, "-", d>>

ValidDateTexts ==
    { Date("2023", "12", "31"), Date("2024", "01", "01"), Date("2024", "02", "29"),
      Date("2024", "06", "15"), Date("2024", "6", "15"), Date("2024", "12", "31"),
      Date("2025", "01", "01") }

InvalidDateTexts ==
    { Date("2023", "02", "29"), Date("2024", "02", "30"), Date("2024", "13", "01"),
      <<"soon">> }

\* The entries of a version: released with a releaseDate that is missing, null,
\* empty or a date text; not released, or without the flag, with a date in the
\* range or none.
VersionEntries ==
    { d @@ [k \in {"released"} |-> PyB(TRUE)] :
        d \in { EmptyMap } \cup
              { [k \in {"releaseDate"} |-> v] :
                  v \in {None, EmptyStr}
                        \cup { PyS(t) : t \in ValidDateTexts \cup InvalidDateTexts } } }
    \cup { [k \in {"released"} |-> PyB(FALSE)],
           [k \in {"released", "releaseDate"} |->
               IF k = "released" THEN PyB(FALSE) ELSE PyS(Date("2024", "06", "15"))],
           [k \in {"releaseDate"} |-> PyS(Date("2024", "06", "15"))] }

VersionAt(n, entries) ==
    entries @@ [ id |-> PyS(<<"1000", Numerals[n]>>),
                 name |-> PyS(<<Numerals[n], ".0">>) ]

VersionLists ==
    UNION { { [i \in 1..n |-> VersionAt(i, es[i])] : es \in [1..n -> VersionEntries] } :
            n \in 0..MaxVersions }

Ranges ==
    { <<Date("2024", "01", "01"), Date("2024", "12", "31")>>,
      <<Date("2024", "07", "01"), Date("2024", "12", "31")>> }

\* Keyword search inputs: tables of up to MaxRows rows and keyword strings of
\* up to MaxKeywordChars characters.
MaxRows == 2
MaxKeywordChars == 3

KeywordStrings ==
    UNION { [1..n -> {"a", "B", " ", ","}] : n \in 0..MaxKeywordChars }
    \cup { <<"A", "b", ",", " ", "b", "a">> }

RowsOver(columns) ==
    { [c \in columns |->
          IF c = "description" THEN d ELSE IF c = "notes" THEN n ELSE PyS(<<"K">>)] :
      d \in { None, EmptyStr, PyS(<<"A", "b", " ", "a">>) },
      n \in { None, PyS(<<"a">>) } }

TablesOver(columns) ==
    { [columns |-> columns, rows |-> r] :
        r \in UNION { [1..n -> RowsOver(columns)] : n \in 0..MaxRows } }

Tables ==
    TablesOver({"issue_key", "description", "notes"})
    \cup TablesOver({"issue_key", "description"})
    \cup TablesOver({"issue_key"})

\* Pagination inputs: totals around the multiples of maxResults up to
\* MaxFullPages full pages, a server that serves maxResults issues a page or
\* caps the page at 100.
MaxFullPages == 2

Servers ==
    { srv \in [ total : { k * maxResults + d : k \in 0..MaxFullPages, d \in {0, 1, maxResults - 1} },
                cap : {100, maxResults},
                bad : {0, 1, maxResults, maxResults + 1},
                fail_at : 0..(MaxFullPages + 1) ] :
        srv.bad <= srv.total }

\* Project loop inputs: up to MaxProjects keys, written "P, O"; each answered
\* by a failure or by up to MaxVersions versions, released in June 2024 or on
\* a date that does not exist; in main.py each release of a project has one
\* issue, which converts or has null labels.
MaxProjects == 2

KeyLetters == <<"P", "O", "W">>

RECURSIVE KeysString(_)
KeysString(n) ==
    IF n = 0 THEN <<>>
    ELSE IF n = 1 THEN <<KeyLetters[1]>>
    ELSE KeysString(n - 1) \o <<",", " ", KeyLetters[n]>>

ProjectVersionLists ==
    UNION { { [i \in 1..n |-> VersionAt(i, [k \in {"released", "releaseDate"} |->
                                 IF k = "released" THEN PyB(TRUE) ELSE PyS(ds[i])])] :
                ds \in [1..n -> {Date("2024", "06", "15"), Date("2023", "02", "29")}] } :
            n \in 0..MaxVersions }

Answers(pages) ==
    { [ok |-> FALSE, versions |-> <<>>, issues |-> <<>>] }
    \cup { [ok |-> TRUE, versions |-> vs, issues |-> p] : vs \in ProjectVersionLists, p \in pages }

MainPages ==
    { <<IssueNumbered("1", BaseFields)>>,
      <<IssueNumbered("1", FieldsWith([k \in {"labels"} |-> "null"]))>> }

Init ==
    /\ op = "init"
    /\ fields = EmptyMap
    /\ possible_field_ids = <<>>
    /\ sprint_data = None
    /\ result = None
    /\ issue = EmptyMap
    /\ project_key = EmptyStr
    /\ release = EmptyMap
    /\ versions = <<>>
    /\ start_date = EmptyStr
    /\ end_date = EmptyStr
    /\ releases = <<>>
    /\ responses = <<>>
    /\ df = [columns |-> {}, rows |-> <<>>]
    /\ keywords = <<>>
    /\ server = [total |-> 0, cap |-> 0, bad |-> 0, fail_at |-> 0]
    /\ startAt = 0
    /\ requests = 0
    /\ issues_data = <<>>
    /\ project_keys = None
    /\ answers = <<>>

\* _get_custom_field_value(fields, possible_field_ids)
ResolveCustomField ==
    /\ op = "init"
    /\ \E f \in Payloads, ids \in CandidateLists :
        /\ op' = "get_custom_field_value"
        /\ fields' = f
        /\ possible_field_ids' = ids
        /\ sprint_data' = None
        /\ result' = GetCustomFieldValue(f, ids)
        /\ UNCHANGED <<record_args, window_args, table_args, search_args>>
        /\ UNCHANGED <<page_args, project_args>>

\* main_v3.py _extract_issue_data: one logical field resolved through its
\* single configured candidate.
NormalizeV3 ==
    /\ op = "init"
    /\ \E v \in RawFieldValues :
        /\ op' = "normalize_v3"
        /\ fields' = [k \in {StoryPointsV3} |-> v]
        /\ possible_field_ids' = <<StoryPointsV3>>
        /\ sprint_data' = None
        /\ result' = GetCustomFieldValue(fields', possible_field_ids')
        /\ UNCHANGED <<record_args, window_args, table_args, search_args>>
        /\ UNCHANGED <<page_args, project_args>>

\* main.py extract_issue_data: one pass of the custom field loop.
NormalizeMain ==
    /\ op = "init"
    /\ \E v \in RawFieldValues :
        /\ op' = "normalize_main"
        /\ fields' = [k \in {StoryPointsMain} |-> v]
        /\ possible_field_ids' = <<StoryPointsMain>>
        /\ sprint_data' = None
        /\ result' = MainCustomField(fields', StoryPointsMain)
        /\ UNCHANGED <<record_args, window_args, table_args, search_args>>
        /\ UNCHANGED <<page_args, project_args>>

\* main_v3.py _parse_single_sprint(sprint_data)
ParseSprint ==
    /\ op = "init"
    /\ \E sd \in SingleSprints :
        /\ op' = "parse_single_sprint"
        /\ sprint_data' = sd
        /\ result' = ParseSingleSprint(sd)
        /\ UNCHANGED <<fields, possible_field_ids>>
        /\ UNCHANGED <<record_args, window_args, table_args, search_args>>
        /\ UNCHANGED <<page_args, project_args>>

\* main_v3.py _extract_sprint_info(fields)
ExtractSprintV3 ==
    /\ op = "init"
    /\ \E f \in SprintPayloads :
        /\ op' = "extract_sprint_info_v3"
        /\ fields' = f
        /\ sprint_data' = Get(f, SprintFieldId, None)
        /\ result' = ExtractSprintInfoV3(f)
        /\ UNCHANGED possible_field_ids
        /\ UNCHANGED <<record_args, window_args, table_args, search_args>>
        /\ UNCHANGED <<page_args, project_args>>

\* main_v4 / main_v6 get_issues_for_version:
\* self._extract_sprint_info(fields_data.get(self.custom_fields['sprint']))
ExtractSprintV6 ==
    /\ op = "init"
    /\ \E f \in SprintPayloads :
        /\ op' = "extract_sprint_info_v6"
        /\ fields' = f
        /\ sprint_data' = Get(f, SprintFieldId, None)
        /\ result' = ExtractSprintInfoV6(sprint_data')
        /\ UNCHANGED possible_field_ids
        /\ UNCHANGED <<record_args, window_args, table_args, search_args>>
        /\ UNCHANGED <<page_args, project_args>>

\* main_v3.py fetch_issues_for_releases: the record of one issue of one
\* release, self._extract_issue_data(issue, release).
BuildRecordV3 ==
    /\ op = "init"
    /\ \E i \in Issues, pk \in ProjectKeys, v \in SelectedVersions :
        /\ op' = "extract_issue_data_v3"
        /\ issue' = i
        /\ project_key' = pk
        /\ release' = v
        /\ fields' = FieldsOf(i)
        /\ result' = ExtractIssueDataV3(i, ReleaseInfoV3(pk, v))
        /\ UNCHANGED <<possible_field_ids, sprint_data>>
        /\ UNCHANGED <<window_args, table_args, search_args>>
        /\ UNCHANGED <<page_args, project_args>>

\* main_v4 / main_v6: the record of one issue of one version, built in
\* get_issues_for_version and completed in extract_release_data.
BuildRecordV6 ==
    /\ op = "init"
    /\ \E i \in Issues, pk \in ProjectKeys, v \in SelectedVersions :
        /\ op' = "issue_info_v6"
        /\ issue' = i
        /\ project_key' = pk
        /\ release' = v
        /\ fields' = FieldsOf(i)
        /\ result' = WithVersionMetadata(IssueInfoV6(i, pk, v["name"]), VersionInfoV6(pk, v))
        /\ UNCHANGED <<possible_field_ids, sprint_data>>
        /\ UNCHANGED <<window_args, table_args, search_args>>
        /\ UNCHANGED <<page_args, project_args>>

\* main.py fetch_releases_and_issues_multiple_projects: the record of one
\* issue of one release.
BuildRecordMain ==
    /\ op = "init"
    /\ \E i \in Issues, pk \in ProjectKeys, v \in SelectedVersions :
        /\ op' = "extract_issue_data_main"
        /\ issue' = i
        /\ project_key' = pk
        /\ release' = v
        /\ fields' = FieldsOf(i)
        /\ result' = IssueDataMain(i, pk, v)
        /\ UNCHANGED <<possible_field_ids, sprint_data>>
        /\ UNCHANGED <<window_args, table_args, search_args>>
        /\ UNCHANGED <<page_args, project_args>>

\* main_v3.py fetch_issues_for_releases(releases)
AggregateV3 ==
    /\ op = "init"
    /\ \E rl \in ReleaseLists :
        \E resps \in [1..Len(rl) -> Responses] :
            /\ op' = "fetch_issues_for_releases"
            /\ releases' = [n \in 1..Len(rl) |-> ReleaseInfoV3(rl[n][1], rl[n][2])]
            /\ responses' = resps
            /\ result' = LET all_issues == FetchIssuesForReleases(releases', resps)
                         IN  IF all_issues.raised THEN Raised ELSE PyL(all_issues.rows)
            /\ UNCHANGED <<field_args, record_args, window_args, search_args>>
            /\ UNCHANGED <<page_args, project_args>>

\* main_v4 / main_v6 extract_release_data: all_issues
AggregateV6 ==
    /\ op = "init"
    /\ \E rl \in ReleaseLists :
        \E resps \in [1..Len(rl) -> Responses] :
            /\ op' = "extract_release_data"
            /\ releases' = [n \in 1..Len(rl) |-> VersionInfoV6(rl[n][1], rl[n][2])]
            /\ responses' = resps
            /\ result' = PyL(AllIssues(releases', resps))
            /\ UNCHANGED <<field_args, record_args, window_args, search_args>>
            /\ UNCHANGED <<page_args, project_args>>

\* main_v3.py fetch_releases for one project key whose request succeeds.
FetchReleasesV3 ==
    /\ op = "init"
    /\ \E vs \in VersionLists, range \in Ranges :
        /\ op' = "fetch_releases"
        /\ versions' = vs
        /\ start_date' = PyS(range[1])
        /\ end_date' = PyS(range[2])
        /\ project_key' = PyS(<<"PROJ">>)
        /\ result' = PyL(ReleasesOfProjectV3(project_key', vs, range[1], range[2]))
        /\ UNCHANGED <<field_args, issue, release, table_args, search_args>>
        /\ UNCHANGED <<page_args, project_args>>

\* main_v4 / main_v6 get_project_versions for one project key whose request
\* succeeds.
GetProjectVersionsV6 ==
    /\ op = "init"
    /\ \E vs \in VersionLists, range \in Ranges :
        /\ op' = "get_project_versions"
        /\ versions' = vs
        /\ start_date' = PyS(range[1])
        /\ end_date' = PyS(range[2])
        /\ project_key' = PyS(<<"PROJ">>)
        /\ result' = PyL(VersionsOfProjectV6(project_key', vs, range[1], range[2]))
        /\ UNCHANGED <<field_args, issue, release, table_args, search_args>>
        /\ UNCHANGED <<page_args, project_args>>

\* main.py get_releases_in_date_range(project_key, start_date, end_date)
GetReleasesMain ==
    /\ op = "init"
    /\ \E vs \in VersionLists, range \in Ranges :
        /\ op' = "get_releases_in_date_range"
        /\ versions' = vs
        /\ start_date' = PyS(range[1])
        /\ end_date' = PyS(range[2])
        /\ project_key' = PyS(<<"PROJ">>)
        /\ result' = PyL(GetReleasesInDateRange(vs, range[1], range[2]))
        /\ UNCHANGED <<field_args, issue, release, table_args, search_args>>
        /\ UNCHANGED <<page_args, project_args>>

\* main_v6 search_keywords_in_data(df, keywords)
SearchKeywords ==
    /\ op = "init"
    /\ \E table \in Tables, kws \in KeywordStrings :
        /\ op' = "search_keywords_in_data"
        /\ df' = table
        /\ keywords' = kws
        /\ result' = PyL(SearchKeywordsInData(table, kws))
        /\ UNCHANGED <<field_args, record_args, window_args, table_args>>
        /\ UNCHANGED <<page_args, project_args>>

\* get_issues_for_version(project_key, version_name) of main.py and of
\* main_v4 / main_v6, up to the loop: params and the empty list.
StartGetIssues ==
    /\ op = "init"
    /\ \E srv \in Servers, program \in {"get_issues_for_version_main", "get_issues_for_version_v6"} :
        /\ program = "get_issues_for_version_main" => srv.bad = 0
        /\ op' = program
        /\ server' = srv
        /\ startAt' = 0
        /\ requests' = 0
        /\ issues_data' = <<>>
        /\ UNCHANGED <<result, field_args, record_args, window_args, table_args, search_args,
                       project_args>>

\* main_v4 / main_v6 get_issues_for_version: one pass of `while True`, and the
\* return when the loop is left.
RequestPageV6 ==
    /\ op = "get_issues_for_version_v6"
    /\ requests' = requests + 1
    /\ LET issues == PageAt(server, startAt)
           failed == server.fail_at = requests'
           built == IF failed THEN <<>> ELSE Converted(issues, server.bad)
       IN  /\ issues_data' = issues_data \o built
           /\ IF failed \/ issues = <<>> \/ built # issues \/ ~Continues(issues)
              THEN /\ op' = "returned_v6"
                   /\ result' = PyL(issues_data')
                   /\ UNCHANGED startAt
              ELSE /\ startAt' = startAt + maxResults
                   /\ UNCHANGED <<op, result>>
    /\ UNCHANGED <<server, field_args, record_args, window_args, table_args, search_args,
                   project_args>>

\* main.py get_issues_for_version: one pass of `while True`, and the return.
RequestPageMain ==
    /\ op = "get_issues_for_version_main"
    /\ requests' = requests + 1
    /\ LET issues == PageAt(server, startAt)
           failed == server.fail_at = requests'
       IN  IF failed
           THEN /\ op' = "returned_main"
                /\ result' = PyL(<<>>)
                /\ UNCHANGED <<startAt, issues_data>>
           ELSE /\ issues_data' = issues_data \o issues
                /\ IF ~Continues(issues)
                   THEN /\ op' = "returned_main"
                        /\ result' = PyL(issues_data')
                        /\ UNCHANGED startAt
                   ELSE /\ startAt' = startAt + maxResults
                        /\ UNCHANGED <<op, result>>
    /\ UNCHANGED <<server, field_args, record_args, window_args, table_args, search_args,
                   project_args>>

\* main_v3.py fetch_releases(project_keys, start_date, end_date)
FetchReleasesOfProjects ==
    /\ op = "init"
    /\ \E n \in 0..MaxProjects, range \in Ranges :
        \E found \in [1..Len(ProjectListV3(KeysString(n))) -> Answers({<<>>})] :
            /\ op' = "fetch_releases_of_projects"
            /\ project_keys' = PyS(KeysString(n))
            /\ answers' = found
            /\ start_date' = PyS(range[1])
            /\ end_date' = PyS(range[2])
            /\ result' = PyL(FetchReleases(ProjectListV3(KeysString(n)), found,
                                           range[1], range[2]))
            /\ UNCHANGED <<field_args, record_args, versions, table_args, search_args,
                           page_args>>

\* main_v4 / main_v6 get_project_versions(project_keys, start_date, end_date)
GetVersionsOfProjects ==
    /\ op = "init"
    /\ \E n \in 0..MaxProjects, range \in Ranges :
        \E found \in [1..n -> Answers({<<>>})] :
            /\ op' = "get_versions_of_projects"
            /\ project_keys' = PyL([i \in 1..n |-> PyS(<<KeyLetters[i]>>)])
            /\ answers' = found
            /\ start_date' = PyS(range[1])
            /\ end_date' = PyS(range[2])
            /\ result' = PyL(GetProjectVersions([i \in 1..n |-> <<KeyLetters[i]>>], found,
                                                range[1], range[2]))
            /\ UNCHANGED <<field_args, record_args, versions, table_args, search_args,
                           page_args>>

\* main.py fetch_releases_and_issues_multiple_projects(project_keys_str,
\* start_date, end_date): the rows of releases_df and of issues_df
FetchReleasesAndIssuesOfProjects ==
    /\ op = "init"
    /\ \E n \in 0..MaxProjects,
          range \in {<<Date("2024", "01", "01"), Date("2024", "12", "31")>>} :
        \E found \in [1..Len(ProjectKeysMain(KeysString(n))) -> Answers(MainPages)] :
            /\ op' = "fetch_releases_and_issues_multiple_projects"
            /\ project_keys' = PyS(KeysString(n))
            /\ answers' = found
            /\ start_date' = PyS(range[1])
            /\ end_date' = PyS(range[2])
            /\ result' = Frames(FetchReleasesAndIssues(ProjectKeysMain(KeysString(n)),
                                                        found, range[1], range[2]))
            /\ UNCHANGED <<field_args, record_args, versions, table_args, search_args,
                           page_args>>

Next ==
    \/ ResolveCustomField
    \/ NormalizeV3
    \/ NormalizeMain
    \/ ParseSprint
    \/ ExtractSprintV3
    \/ ExtractSprintV6
    \/ BuildRecordV3
    \/ BuildRecordV6
    \/ BuildRecordMain
    \/ AggregateV3
    \/ AggregateV6
    \/ FetchReleasesV3
    \/ GetProjectVersionsV6
    \/ GetReleasesMain
    \/ SearchKeywords
    \/ StartGetIssues
    \/ RequestPageV6
    \/ RequestPageMain
    \/ FetchReleasesOfProjects
    \/ GetVersionsOfProjects
    \/ FetchReleasesAndIssuesOfProjects

Spec == Init /\ [][Next]_vars

(***************************************************************************)
(* Claims about custom field resolution and normalization.                 *)
(***************************************************************************)
Normalizing == op \in {"normalize_v3", "normalize_main"}

\* The raw value a normalization run was given.
Raw == fields[possible_field_ids[1]]

Qualifying ==
    { i \in 1..Len(possible_field_ids) :
        /\ possible_field_ids[i] \in DOMAIN fields
        /\ fields[possible_field_ids[i]] # None }

FirstQualifying == CHOOSE i \in Qualifying : \A j \in Qualifying : i <= j

\* C1: _get_custom_field_value returns the normalized value of the first
\* candidate, in list order, that the payload holds with a non-null value, and
\* the empty string when no candidate qualifies.
C1_FirstNonNullCandidateWins ==
    op = "get_custom_field_value" =>
        IF Qualifying = {} THEN result = EmptyStr
        ELSE result = NormalizeFound(fields[possible_field_ids[FirstQualifying]])

\* A resolution where the first candidate is present with null and a later one wins.
C1_Witness ==
    /\ op = "get_custom_field_value"
    /\ Len(possible_field_ids) >= 2
    /\ possible_field_ids[1] \in DOMAIN fields
    /\ fields[possible_field_ids[1]] = None
    /\ Qualifying # {}
    /\ FirstQualifying = 2
    /\ result = PyS(<<"A">>)

IsStrEntry(m, k) == k \in DOMAIN m => IsStr(m[k])

\* What the claims say a mapping normalizes to: `value`, else `name`, else str().
ClaimedMapping(v) ==
    IF "value" \in DOMAIN v.m THEN v.m["value"]
    ELSE IF "name" \in DOMAIN v.m THEN v.m["name"]
    ELSE PyStr(v)

\* C2: a mapping normalizes to its `value` entry if present, otherwise to its
\* `name` entry if present, otherwise to its full string representation
\* (stated for mappings whose entries are strings).
C2_MappingValueThenNameThenStr ==
    (Normalizing /\ IsDict(Raw) /\ IsStrEntry(Raw.m, "value") /\ IsStrEntry(Raw.m, "name"))
        => result = ClaimedMapping(Raw)

ClaimedElement(v) ==
    IF IsDict(v) THEN StrOf(ClaimedMapping(v)) ELSE StrOf(v)

PlainElement(v) ==
    \/ IsStr(v)
    \/ IsDict(v) /\ IsStrEntry(v.m, "value") /\ IsStrEntry(v.m, "name")

\* C3: a sequence normalizes to the normalized strings of its elements, in
\* order, joined with ", ", each element by the mapping / scalar rule; the
\* empty sequence gives the empty string (stated for sequences of strings and
\* of mappings whose entries are strings).
C3_SequenceJoinsNormalizedElements ==
    (Normalizing /\ IsList(Raw) /\ \A i \in 1..Len(Raw.l) : PlainElement(Raw.l[i]))
        => result = PyS(Join([i \in 1..Len(Raw.l) |-> ClaimedElement(Raw.l[i])], CommaSpace))

\* C4: the normalizer returns a string for every raw field value.
C4_NormalizerReturnsString ==
    Normalizing => IsStr(result)

\* C5: a non-null scalar normalizes to its string representation, the falsy
\* scalars 0, false and "" included; null normalizes to the empty string.
C5_ScalarIsItsString ==
    (Normalizing /\ Raw \in Scalars \cup {None})
        => result = (IF Raw = None THEN EmptyStr ELSE PyStr(Raw))

(***************************************************************************)
(* Claims about sprint parsing.                                            *)
(***************************************************************************)
ExtractingSprint == op \in {"extract_sprint_info_v3", "extract_sprint_info_v6"}

LastSprint == sprint_data.l[Len(sprint_data.l)]

\* The running extraction applied to another sprint value.
ExtractAgain(v) ==
    IF op = "extract_sprint_info_v3"
    THEN ExtractSprintInfoV3([k \in {SprintFieldId} |-> v])
    ELSE ExtractSprintInfoV6(v)

\* C6: for a non-empty sprint sequence the result is that of its last element
\* alone; the earlier elements have no influence.
C6_SequenceUsesLastSprintOnly ==
    (ExtractingSprint /\ IsList(sprint_data) /\ Len(sprint_data.l) > 0)
        => result = ExtractAgain(PyL(<<LastSprint>>))

NamelessWithId(v) == IsDict(v) /\ "name" \notin DOMAIN v.m /\ "id" \in DOMAIN v.m

SprintOfId(v) == PyS(<<"Sprint", " ">> \o StrOf(v.m["id"]))

\* C7: a sprint mapping without `name` but with `id` (0 included) parses to
\* "Sprint <id>", also as the last sprint of a sequence; a mapping with
\* neither key parses to the empty string.
C7_NamelessSprintFallsBackToId ==
    /\ (op = "parse_single_sprint" /\ NamelessWithId(sprint_data))
            => result = SprintOfId(sprint_data)
    /\ (ExtractingSprint /\ IsList(sprint_data) /\ Len(sprint_data.l) > 0
            /\ NamelessWithId(LastSprint))
            => result = SprintOfId(LastSprint)
    /\ (op = "parse_single_sprint" /\ IsDict(sprint_data)
            /\ "name" \notin DOMAIN sprint_data.m /\ "id" \notin DOMAIN sprint_data.m)
            => result = EmptyStr

ParsingSprintDict ==
    /\ op \in {"parse_single_sprint", "extract_sprint_info_v3"}
    /\ IsDict(sprint_data)
    /\ "name" \in DOMAIN sprint_data.m

\* C8 as claimed: a sprint mapping with a `name` parses to exactly that name,
\* whatever its other keys (stated for names that are non-empty strings).
C8_Original_NameWhateverOtherKeys ==
    (ParsingSprintDict /\ IsStr(sprint_data.m["name"]) /\ Truthy(sprint_data.m["name"]))
        => result = sprint_data.m["name"]

\* C8: a sprint mapping with a non-empty `name` parses to the name, followed by
\* " (<state>)" when it carries a non-empty `state` other than CLOSED; `id` has
\* no influence.
C8_NameWithOpenState ==
    (ParsingSprintDict /\ Truthy(sprint_data.m["name"]))
        => LET d == sprint_data.m
               open == /\ "state" \in DOMAIN d
                       /\ Truthy(d["state"])
                       /\ d["state"] # PyS(Closed)
           IN  result = IF open
                        THEN PyS(StrOf(d["name"]) \o <<" ", "(">>
                                 \o StrOf(d["state"]) \o <<")">>)
                        ELSE PyStr(d["name"])

\* A named sprint mapping with an id and an open state, parsed with the state appended.
C8_Witness ==
    /\ op = "parse_single_sprint"
    /\ sprint_data = PyD([k \in {"name", "state", "id"} |->
                            IF k = "name" THEN PyS(SprintNameText)
                            ELSE IF k = "state" THEN PyS(<<"ACTIVE">>) ELSE PyN(5)])
    /\ result = PyS(SprintNameText \o <<" ", "(", "ACTIVE", ")">>)

\* The value of the first `key` token of s: the lexemes after it up to the
\* next "," or, when no "," follows, up to the next "]".  ValueEnd is 0 when
\* neither follows.
TokenAt(s, key) == CHOOSE i \in 1..Len(s) : s[i] = key /\ \A j \in 1..(i - 1) : s[j] # key

After(s, i, tok) == { j \in (i + 1)..Len(s) : s[j] = tok }

Least(S) == CHOOSE x \in S : \A y \in S : x <= y

ValueEnd(s, key) ==
    LET i == TokenAt(s, key)
    IN  IF After(s, i, ",") # {} THEN Least(After(s, i, ","))
        ELSE IF After(s, i, "]") # {} THEN Least(After(s, i, "]"))
        ELSE 0

ValueOf(s, key) == SubSeq(s, TokenAt(s, key) + 1, ValueEnd(s, key) - 1)

ParsingLegacy ==
    /\ op = "parse_single_sprint"
    /\ IsStr(sprint_data)
    /\ Contains(sprint_data.s, Marker)
    /\ Contains(sprint_data.s, "name=")

WithState(name, state) == PyS(name \o <<" ", "(">> \o state \o <<")">>)

\* C9 as claimed: the name is the text after `name=` up to the next "," (or
\* "]"); with a `state=` whose value is not CLOSED the result is
\* "<name> (<state>)", otherwise the name alone (stated for descriptors that
\* start with com.atlassian and whose name and state values are terminated).
C9_Original_LegacyNameAndState ==
    (/\ ParsingLegacy
     /\ StartsWith(sprint_data.s, Marker)
     /\ ValueEnd(sprint_data.s, "name=") # 0
     /\ Contains(sprint_data.s, "state=") => ValueEnd(sprint_data.s, "state=") # 0)
        => LET s == sprint_data.s
           IN  result = IF Contains(s, "state=") /\ ValueOf(s, "state=") # Closed
                        THEN WithState(ValueOf(s, "name="), ValueOf(s, "state="))
                        ELSE PyS(ValueOf(s, "name="))

\* C9: when the name value is non-empty and terminated by "," or "]", the
\* result is "<name> (<state>)" if a `state=` token is present with a
\* non-empty, terminated value other than CLOSED, and the name alone
\* otherwise, whatever the order of the tokens.
C9_LegacyNameAndState ==
    (/\ ParsingLegacy
     /\ ValueEnd(sprint_data.s, "name=") # 0
     /\ ValueOf(sprint_data.s, "name=") # <<>>)
        => LET s == sprint_data.s
               open == /\ Contains(s, "state=")
                       /\ ValueEnd(s, "state=") # 0
                       /\ ValueOf(s, "state=") # <<>>
                       /\ ValueOf(s, "state=") # Closed
           IN  result = IF open
                        THEN WithState(ValueOf(s, "name="), ValueOf(s, "state="))
                        ELSE PyS(ValueOf(s, "name="))

\* A descriptor with the id and the state before the name, parsed to "<name> (<state>)".
C9_Witness ==
    /\ op = "parse_single_sprint"
    /\ sprint_data = PyS(<<Marker, "[", "id=", "42", ",", "state=", "ACTIVE", ",",
                           "name=">> \o SprintNameText \o <<"]">>)
    /\ result = WithState(SprintNameText, <<"ACTIVE">>)

\* C10: a string that contains com.atlassian at any position and no `name=`
\* token parses to the empty string.
C10_MarkerWithoutNameIsEmpty ==
    (/\ op = "parse_single_sprint"
     /\ IsStr(sprint_data)
     /\ Contains(sprint_data.s, Marker)
     /\ ~Contains(sprint_data.s, "name="))
        => result = EmptyStr

SprintOp == op \in {"parse_single_sprint", "extract_sprint_info_v3", "extract_sprint_info_v6"}

\* C11: a sprint string without the com.atlassian marker, one that contains
\* `name=` included, parses to the whole string with surrounding whitespace
\* removed.
C11_PlainStringIsTrimmed ==
    (SprintOp /\ IsStr(sprint_data) /\ ~Contains(sprint_data.s, Marker))
        => result = PyS(Strip(sprint_data.s))

OtherShape(v) == ~IsDict(v) /\ ~IsStr(v) /\ ~IsList(v)

\* C12: a sprint value, or the last element of a sprint sequence, that is
\* neither a mapping nor a string parses to the empty string (the sequence
\* case stated for one-element sequences, where no other element plays a part).
C12_OtherShapeIsEmpty ==
    /\ (SprintOp /\ OtherShape(sprint_data)) => result = EmptyStr
    /\ (ExtractingSprint /\ IsList(sprint_data) /\ Len(sprint_data.l) = 1
            /\ OtherShape(LastSprint))
            => result = EmptyStr

(***************************************************************************)
(* Claims about issue records.                                             *)
(***************************************************************************)
Building == op \in {"extract_issue_data_v3", "issue_info_v6", "extract_issue_data_main"}

Built == Building /\ result # Raised

\* The column a payload entry is written to.
ColumnOf(k) ==
    IF op = "extract_issue_data_v3"
    THEN CASE k = "priority" -> "Priority" [] k = "issuetype" -> "Issue_Type"
           [] k = "status" -> "Status" [] k = "resolution" -> "Resolution"
           [] k = "assignee" -> "Assignee" [] k = "reporter" -> "Reporter"
           [] k = "labels" -> "Labels" [] k = "fixVersions" -> "Fix_Version"
           [] k = "description" -> "Description"
    ELSE CASE k = "issuetype" -> "issue_type" [] k = "fixVersions" -> "fix_versions"
           [] OTHER -> k

\* C13: an issue in which one of priority, issue type, status, resolution,
\* assignee, reporter, labels, fix versions or description is present and null
\* yields a record, with the empty string in that column.
C13_NullFixedFieldIsEmpty ==
    Building =>
        \A k \in NullSafeKeys :
            (k \in DOMAIN fields /\ fields[k] = None)
                => (result # Raised /\ result.m[ColumnOf(k)] = EmptyStr)

\* C14: every value of an issue record is a string.
\* (Stated for issues none of whose entries of C13 is null.)
C14_RecordValuesAreStrings ==
    (/\ op \in {"extract_issue_data_v3", "issue_info_v6"}
     /\ result # Raised
     /\ \A k \in NullSafeKeys : k \in DOMAIN fields => fields[k] # None)
        => \A c \in DOMAIN result.m : IsStr(result.m[c])

\* The release context of a record: what the release it was built for says.
ContextAttributes ==
    { "project key", "version name", "version status", "start date", "release date",
      "description" }

ContextValue(attr) ==
    CASE attr = "project key"    -> project_key
      [] attr = "version name"   -> Get(release, "name", EmptyStr)
      [] attr = "version status" -> StatusOf(release)
      [] attr = "start date"     -> Get(release, "startDate", EmptyStr)
      [] attr = "release date"   -> Get(release, "releaseDate", EmptyStr)
      [] attr = "description"    -> Get(release, "description", EmptyStr)

\* The columns of a record that hold an attribute of the release.
ContextColumns(attr) ==
    IF op = "issue_info_v6"
    THEN CASE attr = "project key"    -> {"project_key"}
           [] attr = "version name"   -> {"version_name"}
           [] attr = "version status" -> {"version_status"}
           [] attr = "start date"     -> {"version_start_date"}
           [] attr = "release date"   -> {"version_release_date"}
           [] attr = "description"    -> {"version_description"}
    ELSE IF op = "extract_issue_data_v3"
    THEN CASE attr = "project key"    -> {"Project_Key"}
           [] attr = "version name"   -> {"Release_Version"}
           [] attr = "release date"   -> {"Release_Date"}
           [] OTHER -> {}
    ELSE CASE attr = "project key"    -> {"project_key"}
           [] attr = "version name"   -> {"release_version"}
           [] attr = "release date"   -> {"release_date"}
           [] OTHER -> {}

Carries(attr) ==
    \E c \in ContextColumns(attr) : c \in DOMAIN result.m /\ result.m[c] = ContextValue(attr)

Aggregating == op \in {"fetch_issues_for_releases", "extract_release_data"}

\* The pairs (release, returned issue), by position, and what identifies a pair.
Pairs == { <<r, i>> : r \in 1..Len(releases), i \in 1..MaxIssues }

Returned == { p \in Pairs : responses[p[1]].ok /\ p[2] <= Len(responses[p[1]].issues) }

PairKey(p) ==
    LET rel == releases[p[1]]
    IN  IF op = "fetch_issues_for_releases"
        THEN <<rel["Project_Key"], rel["Version"], responses[p[1]].issues[p[2]]["key"]>>
        ELSE <<rel["project_key"], rel["version_name"], responses[p[1]].issues[p[2]]["key"]>>

RecordKey(rec) ==
    IF op = "fetch_issues_for_releases"
    THEN <<rec.m["Project_Key"], rec.m["Release_Version"], rec.m["Issue_Key"]>>
    ELSE <<rec.m["project_key"], rec.m["version_name"], rec.m["issue_key"]>>

\* C16: the issue table holds exactly one record for each pair of a selected
\* release and an issue returned for it: none dropped, none duplicated, no
\* other record.
C16_OneRecordPerPair ==
    Aggregating =>
        /\ result # Raised
        /\ Len(result.l) = Cardinality(Returned)
        /\ \A p \in Returned :
              Cardinality({ n \in 1..Len(result.l) : RecordKey(result.l[n]) = PairKey(p) }) = 1

(***************************************************************************)
(* Claims about release selection.                                         *)
(***************************************************************************)
Selecting == op \in {"fetch_releases", "get_project_versions", "get_releases_in_date_range"}

\* The id of a selected release, in the shape each program returns.
SelectedId(rel) ==
    IF op = "fetch_releases" THEN rel.m["Version_ID"]
    ELSE IF op = "get_project_versions" THEN rel.m["version_id"]
    ELSE rel.m["id"]

IsSelected(n) == \E k \in 1..Len(result.l) : SelectedId(result.l[k]) = versions[n]["id"]

IsReleased(n) == "released" \in DOMAIN versions[n] /\ versions[n]["released"] = PyB(TRUE)

HasDate(n) ==
    /\ "releaseDate" \in DOMAIN versions[n]
    /\ IsStr(versions[n]["releaseDate"])
    /\ versions[n]["releaseDate"].s # <<>>

\* What a date text of the inputs denotes, as a number yyyymmdd.
Ordinal(text) ==
    CASE text = Date("2023", "12", "31") -> 20231231
      [] text = Date("2024", "01", "01") -> 20240101
      [] text = Date("2024", "02", "29") -> 20240229
      [] text = Date("2024", "06", "15") -> 20240615
      [] text = Date("2024", "6", "15")  -> 20240615
      [] text = Date("2024", "07", "01") -> 20240701
      [] text = Date("2024", "12", "31") -> 20241231
      [] text = Date("2025", "01", "01") -> 20250101

InWindow(n) ==
    /\ HasDate(n)
    /\ versions[n]["releaseDate"].s \in ValidDateTexts
    /\ Ordinal(start_date.s) <= Ordinal(versions[n]["releaseDate"].s)
    /\ Ordinal(versions[n]["releaseDate"].s) <= Ordinal(end_date.s)

\* C18: a released version is selected exactly when it has a releaseDate inside
\* the closed range; a version without releaseDate is never selected.
C18_SelectedIffInWindow ==
    (op \in {"fetch_releases", "get_project_versions"}) =>
        \A n \in 1..Len(versions) :
            /\ IsReleased(n) => (IsSelected(n) <=> InWindow(n))
            /\ ~HasDate(n) => ~IsSelected(n)

HasInvalidDate(n) == HasDate(n) /\ versions[n]["releaseDate"].s \in InvalidDateTexts

\* C19: a version whose releaseDate is a non-empty string that is not a
\* calendar date is not selected, and the selection ends with a list of
\* releases, not with an exception.
C19_InvalidDateIsExcluded ==
    Selecting =>
        /\ IsList(result)
        /\ \A n \in 1..Len(versions) : HasInvalidDate(n) => ~IsSelected(n)

C19_Witness ==
    /\ op = "fetch_releases"
    /\ Len(versions) = 2
    /\ IsReleased(1) /\ HasInvalidDate(1)
    /\ IsReleased(2) /\ IsSelected(2)
    /\ Len(result.l) = 1

(***************************************************************************)
(* Claims about the keyword search.                                        *)
(***************************************************************************)
Searching == op = "search_keywords_in_data"

\* The keywords as listed: the pieces between commas, without the blanks
\* around them.
Listed == KeywordList(keywords)

ConfiguredColumns == {"version_description", "acceptance_criteria", "notes", "description"}

\* The triples (record, column, keyword) of C20, records and keywords by
\* position: the column is configured, present and non-empty in the record, and
\* the keyword occurs in it, letter case ignored.
Hits ==
    { t \in (1..Len(df.rows)) \X (ConfiguredColumns \cap df.columns) \X (1..Len(Listed)) :
        LET cell == df.rows[t[1]][t[2]]
        IN  /\ cell # None
            /\ StrOf(cell) # <<>>
            /\ IsSubstring(Lower(Listed[t[3]]), Lower(StrOf(cell))) }

\* The row C20 and C22 claim for a triple.
RowOf(t) ==
    [ matched_keyword |-> PyS(Listed[t[3]]), matched_column |-> PyS(<<t[2]>>) ]
        @@ df.rows[t[1]]

\* C20: the emitted rows are, one for one, the triples (record, configured
\* column present and non-empty in it, listed keyword) in which the lower-cased
\* keyword is a substring of the lower-cased column value; no other row is
\* emitted, and a record without such a triple contributes none.
C20_OneRowPerHit ==
    Searching =>
        /\ Len(result.l) = Cardinality(Hits)
        /\ \A n \in 1..Len(result.l) : \E t \in Hits : result.l[n] = RowOf(t)
        /\ \A t \in Hits :
              Cardinality({ n \in 1..Len(result.l) : result.l[n] = RowOf(t) })
                  = Cardinality({ u \in Hits : RowOf(u) = RowOf(t) })

\* The example of the specification in small: one record whose description is
\* "Ab a", searched for "Ab, ba", gives the single row for "Ab".
C20_Witness ==
    /\ Searching
    /\ keywords = <<"A", "b", ",", " ", "b", "a">>
    /\ Len(df.rows) = 1
    /\ "description" \in df.columns
    /\ df.rows[1]["description"] = PyS(<<"A", "b", " ", "a">>)
    /\ "notes" \in df.columns => df.rows[1]["notes"] = None
    /\ Len(result.l) = 1
    /\ result.l[1]["matched_keyword"] = PyS(<<"A", "b">>)
    /\ result.l[1]["matched_column"] = PyS(<<"description">>)

DistinctRecords == \A a, b \in 1..Len(df.rows) : df.rows[a] = df.rows[b] => a = b

\* C21: no two emitted rows share the same (record, matched_column,
\* matched_keyword) triple, whatever the keywords string (stated for tables of
\* distinct records and for rows whose keyword is not empty).
C21_RowsAreDistinctHits ==
    (Searching /\ DistinctRecords) =>
        \A a, b \in 1..Len(result.l) :
            (result.l[a] = result.l[b] /\ result.l[a]["matched_keyword"] # EmptyStr)
                => a = b

\* The emitted row n comes from record r, column c and the j-th listed keyword.
ComesFrom(n, r, c, j) ==
    /\ \A col \in df.columns : col \in DOMAIN result.l[n] /\ result.l[n][col] = df.rows[r][col]
    /\ DOMAIN result.l[n] = df.columns \cup {"matched_keyword", "matched_column"}
    /\ result.l[n]["matched_keyword"] = PyS(Listed[j])
    /\ result.l[n]["matched_column"] = PyS(<<c>>)
    /\ c \in ConfiguredColumns \cap df.columns
    /\ df.rows[r][c] # None
    /\ IsSubstring(Lower(Listed[j]), Lower(StrOf(df.rows[r][c])))

\* C22: every emitted row holds the columns of a record of the table with their
\* values, matched_keyword equal to a listed keyword in the letter case given,
\* and matched_column equal to the name of a column of that record in which
\* the keyword occurs.
C22_RowPreservesRecord ==
    Searching =>
        \A n \in 1..Len(result.l) :
            \E r \in 1..Len(df.rows), c \in df.columns, j \in 1..Len(Listed) :
                ComesFrom(n, r, c, j)

C22_Witness ==
    /\ Searching
    /\ keywords = <<" ", "B", " ">>
    /\ Len(df.rows) = 1
    /\ df.columns = {"issue_key", "description", "notes"}
    /\ df.rows[1]["notes"] = PyS(<<"a">>)
    /\ Len(result.l) = 1
    /\ ComesFrom(1, 1, "description", 1)
    /\ result.l[1]["matched_keyword"] = PyS(<<"B">>)
    /\ result.l[1]["notes"] = PyS(<<"a">>)
    /\ result.l[1]["issue_key"] = PyS(<<"K">>)

\* A record has something to search: a configured column with a value that is
\* neither missing nor empty.
Searchable(r) ==
    \E c \in ConfiguredColumns \cap df.columns :
        df.rows[r][c] # None /\ df.rows[r][c] # EmptyStr

\* C23: the search ends with a table, never with an exception or with nothing;
\* the table is empty when there are no records, when no configured column is
\* in the table, and when no record has a configured column with a value; a
\* row is only ever matched in a configured column that is in the table and
\* holds a value.
C23_AbsentDataGivesEmptyTable ==
    Searching =>
        /\ IsList(result)
        /\ (\A r \in 1..Len(df.rows) : ~Searchable(r)) => result.l = <<>>
        /\ \A n \in 1..Len(result.l) :
              \E r \in 1..Len(df.rows), c \in ConfiguredColumns \cap df.columns :
                  /\ result.l[n]["matched_column"] = PyS(<<c>>)
                  /\ \A col \in df.columns : result.l[n][col] = df.rows[r][col]
                  /\ df.rows[r][c] # None /\ df.rows[r][c] # EmptyStr

C23_Witness ==
    /\ Searching
    /\ df.columns = {"issue_key", "description"}
    /\ Len(df.rows) = 2
    /\ df.rows[1]["description"] = None
    /\ df.rows[2]["description"] = EmptyStr
    /\ keywords = <<"a", ",">>
    /\ result = PyL(<<>>)

(***************************************************************************)
(* Claims about the order of processing.                                   *)
(***************************************************************************)
Reversed(seq) == [i \in 1..Len(seq) |-> seq[Len(seq) + 1 - i]]

RecordsOf(page, version) ==
    LET found == IssueInfosOfPage(page, version["project_key"], version["version_name"])
    IN  { found[n] : n \in 1..Len(found) }

\* C24: the set of records built for the issues of a release does not depend
\* on the order in which the issues are processed.
C24_RecordsIndependentOfOrder ==
    op = "extract_release_data" =>
        \A r \in 1..Len(releases) :
            responses[r].ok =>
                RecordsOf(responses[r].issues, releases[r])
                    = RecordsOf(Reversed(responses[r].issues), releases[r])

(***************************************************************************)
(* Claims about get_issues_for_version.                                    *)
(***************************************************************************)
Paging == op \in {"get_issues_for_version_v6", "get_issues_for_version_main"}

Returned_ == op \in {"returned_v6", "returned_main"}

AllMatching == [i \in 1..server.total |-> i]

\* C25: when no request fails (and every issue converts), the returned list is
\* the matching issues of the version, each once, in server order, whatever
\* the page size the server serves.
C25_AllIssuesFetched ==
    (Returned_ /\ server.fail_at = 0 /\ server.bad = 0) => result = PyL(AllMatching)

\* The issues numbered 1..n, in server order.
FirstIssues(n) == [i \in 1..n |-> i]

\* The fair specification of the pagination loop: once started, a loop that
\* can make its next request makes it.
FetchNext == StartGetIssues \/ RequestPageV6 \/ RequestPageMain

FetchSpec ==
    Init /\ [][FetchNext]_vars /\ WF_vars(RequestPageV6) /\ WF_vars(RequestPageMain)

\* C26: the pagination loop terminates; startAt changes only by growing by
\* maxResults after a full page; a page shorter than maxResults ends the loop;
\* and against a server that serves every request with maxResults issues a
\* page the loop makes total \div maxResults + 1 requests, so one request more
\* than there are pages when the total is a positive multiple of maxResults.
C26_PaginationTerminates ==
    /\ Paging ~> Returned_
    /\ [][startAt' # startAt =>
            /\ Paging /\ Paging'
            /\ Len(PageAt(server, startAt)) = maxResults
            /\ startAt' = startAt + maxResults]_vars
    /\ [][(Paging /\ requests' # requests /\ Len(PageAt(server, startAt)) < maxResults)
            => Returned_']_vars
    /\ []((Returned_ /\ server.fail_at = 0 /\ server.bad = 0 /\ server.cap = maxResults)
            => requests = (server.total \div maxResults) + 1)

C26_Witness ==
    /\ Returned_
    /\ server = [total |-> 2 * maxResults, cap |-> maxResults, bad |-> 0, fail_at |-> 0]
    /\ startAt = 2 * maxResults
    /\ requests = 3
    /\ result = PyL(FirstIssues(2 * maxResults))

\* C27: in main_v4 / main_v6 a failed request or a failed conversion ends
\* get_issues_for_version without an exception: it returns the records built
\* before the failure, in server order, and nothing of what follows.  (At the
\* return, requests numbers the last request and startAt is its offset.)
C27_FailureReturnsRecordsSoFar ==
    op = "returned_v6" =>
        /\ result # Raised
        /\ result = PyL(issues_data)
        /\ issues_data = FirstIssues(Len(issues_data))
        /\ server.fail_at = requests => Len(issues_data) = startAt
        /\ (/\ server.fail_at # requests
            /\ server.bad > startAt
            /\ server.bad <= startAt + Len(PageAt(server, startAt)))
            => Len(issues_data) = server.bad - 1

C27_Witness ==
    /\ op = "returned_v6"
    /\ server = [total |-> 2 * maxResults, cap |-> maxResults, bad |-> maxResults + 1,
                 fail_at |-> 0]
    /\ requests = 2
    /\ result = PyL(FirstIssues(maxResults))

(***************************************************************************)
(* Claims about the loop over the project keys.                            *)
(***************************************************************************)
Fetching ==
    op \in {"fetch_releases_of_projects", "get_versions_of_projects",
            "fetch_releases_and_issues_multiple_projects"}

\* The project keys in input order, and the release rows of the result.
InputKeys ==
    CASE op = "fetch_releases_of_projects" -> ProjectListV3(project_keys.s)
      [] op = "get_versions_of_projects" ->
            [i \in 1..Len(project_keys.l) |-> project_keys.l[i].s]
      [] op = "fetch_releases_and_issues_multiple_projects" -> ProjectKeysMain(project_keys.s)

ReleaseRows ==
    IF op = "fetch_releases_and_issues_multiple_projects"
    THEN result.m["releases_df"].l ELSE result.l

KeyOfRow(row) ==
    IF op = "fetch_releases_of_projects" THEN row.m["Project_Key"] ELSE row.m["project_key"]

PositionOf(key) == CHOOSE i \in 1..Len(InputKeys) : PyS(InputKeys[i]) = key

\* The release rows of the i-th project when it is fetched alone.
RowsAlone(i) ==
    LET key == PyS(InputKeys[i])
        vs == answers[i].versions
    IN  CASE op = "fetch_releases_of_projects" ->
                ReleasesOfProjectV3(key, vs, start_date.s, end_date.s)
          [] op = "get_versions_of_projects" ->
                VersionsOfProjectV6(key, vs, start_date.s, end_date.s)
          [] op = "fetch_releases_and_issues_multiple_projects" ->
                SelectSeq(ProjectDataMain(key,
                                          GetReleasesInDateRange(vs, start_date.s, end_date.s),
                                          answers[i].issues),
                          LAMBDA row : "version" \in DOMAIN row.m)

\* C28: the release fetch raises nothing; a project whose versions request
\* fails contributes no row; every other project contributes the rows it
\* contributes when fetched alone, whatever happened to the projects before
\* and after it; and the rows stand in the order of the project keys.
C28_ProjectFailureIsIsolated ==
    Fetching =>
        /\ result # Raised
        /\ \A n \in 1..Len(ReleaseRows) :
              \E i \in 1..Len(InputKeys) :
                  answers[i].ok /\ KeyOfRow(ReleaseRows[n]) = PyS(InputKeys[i])
        /\ \A i \in 1..Len(InputKeys) :
              answers[i].ok =>
                  SelectSeq(ReleaseRows, LAMBDA row : KeyOfRow(row) = PyS(InputKeys[i]))
                      = RowsAlone(i)
        /\ \A a, b \in 1..Len(ReleaseRows) :
              a < b => PositionOf(KeyOfRow(ReleaseRows[a])) <= PositionOf(KeyOfRow(ReleaseRows[b]))

\* The first project fails, the second one has a release inside the range.
C28_Witness ==
    /\ op = "fetch_releases_of_projects"
    /\ Len(InputKeys) = 2
    /\ ~answers[1].ok
    /\ answers[2].ok
    /\ Len(ReleaseRows) = 1
    /\ KeyOfRow(ReleaseRows[1]) = PyS(<<"O">>)

(***************************************************************************)
(* Claims about invalid dates and empty keywords.                          *)
(***************************************************************************)
\* C29: whether a version whose own releaseDate is not invalid is selected
\* depends on its released flag, its releaseDate and the range only, also when
\* another version of the project has an invalid releaseDate.
C29_InvalidDateAffectsOnlyItself ==
    Selecting =>
        \A n \in 1..Len(versions) :
            ~HasInvalidDate(n) => (IsSelected(n) <=> (IsReleased(n) /\ InWindow(n)))

\* C30: no emitted row has the empty string as its matched_keyword.
C30_NoRowForEmptyKeyword ==
    Searching => \A n \in 1..Len(result.l) : result.l[n]["matched_keyword"] # EmptyStr

====
